---------------------------- MODULE Spec2Model ----------------------------
(***************************************************************************)
(* Gumball Tracker: the field run session engine.                          *)
(*                                                                         *)
(* The model follows src/src/app/app.js (createApp and its handlers),      *)
(* src/unnamed/part_004 (the run session), src/src/domain/activeSession.js,*)
(* src/src/domain/visitModel.js, src/src/domain/runCompletion.js and       *)
(* src/src/domain/autoCheckIn.js.                                          *)
(*                                                                         *)
(* JavaScript runs one handler at a time; a handler gives up control at    *)
(* each await.  A handler is therefore modelled by one action for the part *)
(* that runs when it is invoked and one action for the part that runs      *)
(* after each await; the awaited handlers in flight are the bag inflight.  *)
(* IndexedDB executes the transactions of one store in the order in which  *)
(* they were created, so a store operation takes effect when it is issued  *)
(* and only its continuation is delayed.                                   *)
(*                                                                         *)
(* Time: Date.now() is modelled by the counter now, which advances when a  *)
(* run session is created, so that two sessions never share startedAt, and *)
(* when the app is restarted.                                              *)
(* Distances: stops and fixes lie on a line, haversineKm is |a - b|, in    *)
(* metres.                                                                 *)
(* User gestures are accepted once the start-up check has finished and the *)
(* modal resume prompt is closed.                                          *)
(***************************************************************************)
EXTENDS Integers, Sequences, FiniteSets, Bags, TLC

\* ------------------------------------------------------------------ bounds
MaxNow == 3           \* the last instant of the clock now
MaxInflight == 2      \* handlers awaiting a continuation at the same time
DwellTicks == 2       \* settings.dwellSeconds, in clock ticks of the dwell timer
MaxCompletions == 2   \* completion records written in one behaviour
MaxCandidates == 2    \* locations passed to getNearestByCardinal
MaxCalls == 3         \* handler calls recorded one after the other
MaxNotices == 2       \* permission-denied notices counted

\* ---------------------------------------------------------- the world
NULL == "null"
Runs == {"r1", "r2"}
Locations == {"A", "B", "C"}
\* the locations store in key order (getAll returns records sorted by key)
allLocations == <<"A", "B", "C">>
\* the runLocations links of a run whose stops are S: one {runId, locationId} each
Links(runId, S) == {[runId |-> runId, locationId |-> l] : l \in S}
\* coordinates of the stops on the line, in metres
Coord(l) == CASE l = "A" -> 0 [] l = "B" -> 75 [] OTHER -> 75

\* the auto check-in constants and the default settings
SPEED_THRESHOLD_KMH == 5
SPEED_MS_TO_KMH_X10 == 36       \* SPEED_MS_TO_KMH = 3.6, in tenths
ACCURACY_WORSE_THAN_M == 100
proximityMeters == 50

\* positions a fix can report: 25 is nearer to A, 50 is nearer to B and C,
\* 150 is out of range of every stop
Positions == {25, 50, 150}
\* coords.accuracy in metres and coords.speed in m/s (1 m/s is 3.6 km/h,
\* 2 m/s is 7.2 km/h)
Accuracies == {10, 150}
Speeds == {1, 2}
\* the fixes delivered: a precise slow fix at each position and, at position
\* 25 (in range of stop A), every combination of accuracy and speed
Fixes == {[pos |-> p, accuracy |-> 10, speed |-> 1] : p \in Positions}
           \cup {[pos |-> 25, accuracy |-> a, speed |-> v] : a \in Accuracies, v \in Speeds}
\* every fix the watch can deliver: any position, an accuracy radius below, at
\* and above the threshold of 100 m, and either speed
AllFixes == [pos : Positions, accuracy : Accuracies \cup {100, 101}, speed : Speeds]
NoFix == [pos |-> 0, accuracy |-> 0, speed |-> 0]

Modes == {"dashboard", "maintenance", "operation"}

\* ------------------------------------------------------------- geo helpers
Abs(x) == IF x < 0 THEN -x ELSE x

\* the great-circle distance, on the line and in thousandths of a km
haversineKm(p, l) == Abs(p - Coord(l))

Max(a, b) == IF a > b THEN a ELSE b

SeqToSet(s) == {s[i] : i \in DOMAIN s}

\* ----------------------------------------------------------- run session
\* visit ids are strings; null stands for no visit id
NoVisitId == NULL

NoSession == [runId |-> NULL, visitedLocationIds |-> {},
              visitIdsByLocation |-> [l \in {} |-> NoVisitId], startedAt |-> 0]

createRunSession(runId, t) ==
  [runId |-> runId, visitedLocationIds |-> {},
   visitIdsByLocation |-> [l \in {} |-> NoVisitId], startedAt |-> t]

\* markVisited written as a toggle: a call on a visited stop takes it out again
markVisitedToggles(session, locationId, visitId) ==
  IF locationId \in session.visitedLocationIds
    THEN [session EXCEPT
            !.visitedLocationIds = @ \ {locationId},
            !.visitIdsByLocation = [l \in DOMAIN @ \ {locationId} |-> @[l]]]
    ELSE [session EXCEPT
            !.visitedLocationIds = @ \cup {locationId},
            !.visitIdsByLocation =
               [l \in DOMAIN @ \cup {locationId} |->
                  IF l = locationId THEN visitId ELSE @[l]]]

\* if (visitId): null and the empty string are falsy, any other string is truthy
Truthy(visitId) == visitId # NULL /\ visitId # ""

\* markVisited that stores a visit id only for a stop that has none
markVisitedKeepsMapping(session, locationId, visitId) ==
  [session EXCEPT
     !.visitedLocationIds = @ \cup {locationId},
     !.visitIdsByLocation =
        IF Truthy(visitId) /\ locationId \notin DOMAIN @
          THEN [l \in DOMAIN @ \cup {locationId} |->
                  IF l = locationId THEN visitId ELSE @[l]]
          ELSE @]

markVisited(session, locationId, visitId) ==
  [session EXCEPT
     !.visitedLocationIds = @ \cup {locationId},
     !.visitIdsByLocation =
        IF Truthy(visitId)
          THEN [l \in DOMAIN @ \cup {locationId} |->
                  IF l = locationId THEN visitId ELSE @[l]]
          ELSE @]

\* markUnvisited that forgets to drop the stop's visit id
markUnvisitedKeepsVisitId(session, locationId) ==
  [session EXCEPT !.visitedLocationIds = @ \ {locationId}]

\* markUnvisited that empties the whole visit-id map
markUnvisitedClearsMap(session, locationId) ==
  [session EXCEPT
     !.visitedLocationIds = @ \ {locationId},
     !.visitIdsByLocation = [l \in {} |-> NoVisitId]]

markUnvisited(session, locationId) ==
  [session EXCEPT
     !.visitedLocationIds = @ \ {locationId},
     !.visitIdsByLocation = [l \in DOMAIN @ \ {locationId} |-> @[l]]]

isVisited(session, locationId) == locationId \in session.visitedLocationIds

getVisitId(session, locationId) ==
  IF locationId \in DOMAIN session.visitIdsByLocation
    THEN session.visitIdsByLocation[locationId]
    ELSE NoVisitId

\* the visit id made of the run and the stop alone
makeVisitIdWithoutStart(session, locationId) ==
  "visit-" \o session.runId \o "-" \o locationId

\* the template string visit-${runId}-${locationId}-${startedAt}
makeVisitId(session, locationId) ==
  "visit-" \o session.runId \o "-" \o locationId \o "-" \o ToString(session.startedAt)


\* ------------------------------------------------- active session (persisted)
\* Array.from(set): the members in some order, each once
RECURSIVE ArrayFrom(_)
ArrayFrom(S) ==
  IF S = {} THEN <<>>
  ELSE LET x == CHOOSE y \in S : TRUE IN <<x>> \o ArrayFrom(S \ {x})

\* Object.fromEntries(map): the object's own key/value pairs
ObjectFromEntries(m) == {<<k, m[k]>> : k \in DOMAIN m}

\* new Date(ms).toISOString(): a string that carries the instant
toISOString(ms) == [kind |-> "string", ms |-> ms]

\* a saved record that leaves the visited stops out
ActiveSessionRecordNoVisits(session, t) ==
  [id |-> "current",
   runId |-> session.runId,
   visitedLocationIds |-> [present |-> TRUE, items |-> <<>>],
   visitIdsByLocation |-> [present |-> TRUE, entries |-> {}],
   startedAt |-> toISOString(session.startedAt),
   lastUpdatedAt |-> t]

\* a saved record whose startedAt is the time of saving
ActiveSessionRecordStartedNow(session, t) ==
  [id |-> "current",
   runId |-> session.runId,
   visitedLocationIds |-> [present |-> TRUE,
                           items |-> ArrayFrom(session.visitedLocationIds)],
   visitIdsByLocation |-> [present |-> TRUE,
                           entries |-> ObjectFromEntries(session.visitIdsByLocation)],
   startedAt |-> toISOString(t),
   lastUpdatedAt |-> t]

\* the record that saveActiveSession puts into the activeSessions store
ActiveSessionRecord(session, t) ==
  [id |-> "current",
   runId |-> session.runId,
   visitedLocationIds |-> [present |-> TRUE,
                           items |-> ArrayFrom(session.visitedLocationIds)],
   visitIdsByLocation |-> [present |-> TRUE,
                           entries |-> ObjectFromEntries(session.visitIdsByLocation)],
   startedAt |-> toISOString(session.startedAt),
   lastUpdatedAt |-> t]

\* Array.isArray(x) ? x : [] for a field of a stored record: a field that is
\* present holds an array, a missing one is undefined
ArrayOrEmpty(x) == IF x.present THEN x.items ELSE <<>>

\* putEntity / deleteEntity / getEntity on a store (a function from key to record)
putEntity(store, key, value) ==
  [k \in DOMAIN store \cup {key} |-> IF k = key THEN value ELSE store[k]]

\* deleteEntity that deletes nothing
deleteEntityKeeps(store, key) == store

deleteEntity(store, key) == [k \in DOMAIN store \ {key} |-> store[k]]

\* saveActiveSession that keeps one record per session instead of the one slot
saveActiveSessionPerSession(store, session, t) ==
  putEntity(store, "session-" \o ToString(session.startedAt), ActiveSessionRecord(session, t))

saveActiveSession(store, session, t) ==
  putEntity(store, "current", ActiveSessionRecord(session, t))

\* clearActiveSession that leaves the slot as it is
clearActiveSessionKeeps(store) == store

clearActiveSession(store) == deleteEntity(store, "current")

\* loadActiveSession: the set holding the record, empty when there is none
loadActiveSession(store) == {store[k] : k \in DOMAIN store \cap {"current"}}

\* startedAt read with Number(x) || Date.now() alone: an ISO string is not a
\* number, so the time of reading is taken
startedAtNumberOnly(startedAt, t) ==
  IF startedAt.kind = "number" /\ startedAt.ms # 0 THEN startedAt.ms ELSE t

\* the startedAt of a stored record, as sessionFromStorage reads it
startedAtFromStorage(startedAt, t) ==
  IF startedAt.kind = "string" THEN startedAt.ms
  ELSE IF startedAt.ms # 0 THEN startedAt.ms ELSE t

\* sessionFromStorage that rebuilds the session without its visits
sessionFromStorageFresh(data, t) ==
  IF data.runId = NULL THEN NoSession
  ELSE createRunSession(data.runId, startedAtFromStorage(data.startedAt, t))

\* sessionFromStorage without the fallback: a record that carries no visit ids
\* gives a session with none
sessionFromStorageNoFallback(data, t) ==
  IF data.runId = NULL THEN NoSession
  ELSE
    LET startedAt == startedAtFromStorage(data.startedAt, t)
        visited == SeqToSet(ArrayOrEmpty(data.visitedLocationIds))
        entries == data.visitIdsByLocation.entries
    IN [runId |-> data.runId,
        visitedLocationIds |-> visited,
        visitIdsByLocation |->
          [l \in {e[1] : e \in entries} |-> (CHOOSE e \in entries : e[1] = l)[2]],
        startedAt |-> startedAt]

sessionFromStorage(data, t) ==
  IF data.runId = NULL THEN NoSession
  ELSE
    LET startedAt == startedAtFromStorage(data.startedAt, t)
        visited == SeqToSet(ArrayOrEmpty(data.visitedLocationIds))
        sessionLike == [runId |-> data.runId, startedAt |-> startedAt]
        entries == data.visitIdsByLocation.entries
    IN [runId |-> data.runId,
        visitedLocationIds |-> visited,
        visitIdsByLocation |->
          IF data.visitIdsByLocation.present
            THEN [l \in {e[1] : e \in entries} |->
                    (CHOOSE e \in entries : e[1] = l)[2]]
            ELSE [l \in visited |-> makeVisitId(sessionLike, l)],
        startedAt |-> startedAt]

\* ------------------------------------------------------------ visit ledger
createVisit(id, locationId, runId, visitedAt, visitMethod) ==
  [id |-> id, locationId |-> locationId, runId |-> runId,
   visitedAt |-> visitedAt, visitMethod |-> visitMethod]

saveVisit(store, visit) == putEntity(store, visit.id, visit)

deleteVisit(store, visitId) == deleteEntity(store, visitId)

\* ---------------------------------------------------------- run completion
\* the record addRunCompletion writes; its id is fresh, so records accumulate
addRunCompletion(store, completion) == store (+) SetToBag({completion})


\* ------------------------------------------------- auto check-in controller
\* the controller's state: the two closure variables and the browser's timers
\* (timer id -> ticks left before the callback runs)
Controller(d, t, ts) == [dwellingLocationId |-> d, dwellTimerId |-> t, timers |-> ts]

clearTimeout(ts, id) == [k \in DOMAIN ts \ {id} |-> ts[k]]

\* setTimeout returns an id that no outstanding timer has
FreshTimerId(ts) == CHOOSE k \in 1..(Cardinality(DOMAIN ts) + 1) : k \notin DOMAIN ts

\* cancelAll that forgets the dwell without clearing its timer
cancelAllKeepsTimer(c) == Controller(NULL, 0, c.timers)

cancelAll(c) == Controller(NULL, 0, clearTimeout(c.timers, c.dwellTimerId))

\* cancelForLocation that clears the dwell of any stop
cancelForLocationAny(c, locationId) ==
  Controller(NULL, 0, clearTimeout(c.timers, c.dwellTimerId))

\* cancelForLocation that forgets the dwell without clearing its timer
cancelForLocationKeepsTimer(c, locationId) ==
  IF c.dwellingLocationId = locationId
    THEN Controller(NULL, 0, c.timers)
    ELSE c

cancelForLocation(c, locationId) ==
  IF c.dwellingLocationId = locationId
    THEN Controller(NULL, 0, clearTimeout(c.timers, c.dwellTimerId))
    ELSE c

\* the loop of update(): the first stop of the list within proximity that no
\* later stop beats by a strictly smaller distance
RECURSIVE ClosestFrom(_, _, _, _)
ClosestFrom(pos, unvisited, closest, closestDist) ==
  IF unvisited = <<>> THEN closest
  ELSE LET loc == Head(unvisited)
           d == haversineKm(pos, loc)
       IN IF d <= proximityMeters /\ (closest = NULL \/ d < closestDist)
            THEN ClosestFrom(pos, Tail(unvisited), loc, d)
            ELSE ClosestFrom(pos, Tail(unvisited), closest, closestDist)

\* the loop without the comparison of distances: the first stop of the list
\* within proximity
FirstInRange(pos, unvisited) ==
  LET inRange == SelectSeq(unvisited, LAMBDA l : haversineKm(pos, l) <= proximityMeters)
  IN IF inRange = <<>> THEN NULL ELSE Head(inRange)

Closest(pos, unvisited) == ClosestFrom(pos, unvisited, NULL, proximityMeters)

\* the two gates of update(): accuracy > accuracyThreshold, and
\* speedMs * SPEED_MS_TO_KMH > SPEED_THRESHOLD_KMH (both sides times ten)
TooInaccurate(fix) == fix.accuracy > Max(proximityMeters, ACCURACY_WORSE_THAN_M)

\* the speed gate without the conversion from m/s to km/h
TooFastInMetresPerSecond(fix) == fix.speed > SPEED_THRESHOLD_KMH

TooFast(fix) == fix.speed * SPEED_MS_TO_KMH_X10 > SPEED_THRESHOLD_KMH * 10

\* update() without the early return for the stop already dwelled on: every
\* qualifying fix starts the dwell again
updateControllerRestarts(c, fix, locations, visitedIds) ==
  LET unvisited == SelectSeq(locations, LAMBDA l : l \notin visitedIds)
      closest == Closest(fix.pos, unvisited)
      idle == cancelAll(c)
      id == FreshTimerId(idle.timers)
  IN IF unvisited = <<>> THEN idle
     ELSE IF TooInaccurate(fix) THEN c
     ELSE IF TooFast(fix) THEN idle
     ELSE IF closest = NULL THEN idle
     ELSE Controller(closest, id,
            [k \in DOMAIN idle.timers \cup {id} |->
               IF k = id THEN DwellTicks ELSE idle.timers[k]])

\* update() without the cancelAll() before it arms: the timer of the stop
\* dwelled on before stays outstanding
updateControllerKeepsOldTimer(c, fix, locations, visitedIds) ==
  LET unvisited == SelectSeq(locations, LAMBDA l : l \notin visitedIds)
      closest == Closest(fix.pos, unvisited)
      idle == cancelAll(c)
      id == FreshTimerId(c.timers)
  IN IF unvisited = <<>> THEN idle
     ELSE IF TooInaccurate(fix) THEN c
     ELSE IF TooFast(fix) THEN idle
     ELSE IF closest = NULL THEN idle
     ELSE IF c.dwellingLocationId = closest THEN c
     ELSE Controller(closest, id,
            [k \in DOMAIN c.timers \cup {id} |->
               IF k = id THEN DwellTicks ELSE c.timers[k]])

\* update() with the speed gate before the accuracy gate: an imprecise fast
\* fix cancels the dwell
updateControllerSpeedFirst(c, fix, locations, visitedIds) ==
  LET unvisited == SelectSeq(locations, LAMBDA l : l \notin visitedIds)
      closest == Closest(fix.pos, unvisited)
      idle == cancelAll(c)
      id == FreshTimerId(idle.timers)
  IN IF unvisited = <<>> THEN idle
     ELSE IF TooFast(fix) THEN idle
     ELSE IF TooInaccurate(fix) THEN c
     ELSE IF closest = NULL THEN idle
     ELSE IF c.dwellingLocationId = closest THEN c
     ELSE Controller(closest, id,
            [k \in DOMAIN idle.timers \cup {id} |->
               IF k = id THEN DwellTicks ELSE idle.timers[k]])

\* the part of update() that runs after its awaits
updateController(c, fix, locations, visitedIds) ==
  LET unvisited == SelectSeq(locations, LAMBDA l : l \notin visitedIds)
      closest == Closest(fix.pos, unvisited)
      idle == cancelAll(c)
      id == FreshTimerId(idle.timers)
  IN IF unvisited = <<>> THEN idle
     ELSE IF TooInaccurate(fix) THEN c
     ELSE IF TooFast(fix) THEN idle
     ELSE IF closest = NULL THEN idle
     ELSE IF c.dwellingLocationId = closest THEN c
     ELSE Controller(closest, id,
            [k \in DOMAIN idle.timers \cup {id} |->
               IF k = id THEN DwellTicks ELSE idle.timers[k]])

\* the timer callback of update(): the controller forgets the dwell
dwellExpired(c, id) == Controller(NULL, 0, clearTimeout(c.timers, id))


\* ------------------------------------------------------ settings persistence
\* JavaScript values as the settings code meets them: numbers (integers
\* here), NaN, the two infinities, undefined, null, booleans, the empty
\* string, a string holding the decimal text of a number, and other text
Num(n) == [t |-> "number", v |-> n]
NaN == [t |-> "NaN", v |-> 0]
Infinite(sign) == [t |-> "Infinity", v |-> sign]
Undefined == [t |-> "undefined", v |-> 0]
Bool(b) == [t |-> "boolean", v |-> IF b THEN 1 ELSE 0]

SettingNumbers == {-5, 0, 4, 5, 19, 20, 21, 120, 121, 200, 201}

JsValues ==
  {Num(n) : n \in SettingNumbers}
    \cup {NaN, Infinite(1), Infinite(-1), Undefined, [t |-> "null", v |-> 0],
          Bool(TRUE), Bool(FALSE), [t |-> "empty", v |-> 0],
          [t |-> "string", v |-> 60], [t |-> "string", v |-> 500],
          [t |-> "text", v |-> 0]}

\* Number(x)
Number(x) ==
  CASE x.t \in {"number", "NaN", "Infinity"} -> x
    [] x.t \in {"undefined", "text"} -> NaN
    [] x.t \in {"null", "empty"} -> Num(0)
    [] OTHER -> Num(x.v)

\* Boolean(x)
Boolean(x) ==
  CASE x.t \in {"NaN", "undefined", "null", "empty"} -> FALSE
    [] x.t \in {"number", "boolean"} -> x.v # 0
    [] OTHER -> TRUE

\* x || d and x ?? d
OrElse(x, d) == IF Boolean(x) THEN x ELSE d
Nullish(x, d) == IF x.t \in {"undefined", "null"} THEN d ELSE x

Min(a, b) == IF a <= b THEN a ELSE b

\* clamp without the test for NaN: Math.max and Math.min give NaN for NaN
clampNaN(val, min, max) ==
  CASE val.t = "NaN" -> NaN
    [] val.t = "Infinity" -> IF val.v > 0 THEN Num(max) ELSE Num(min)
    [] OTHER -> Num(Max(min, Min(max, val.v)))

\* clamp(val, min, max) for a number val
clamp(val, min, max) ==
  CASE val.t = "NaN" -> Num(min)
    [] val.t = "Infinity" -> IF val.v > 0 THEN Num(max) ELSE Num(min)
    [] OTHER -> Num(Max(min, Min(max, val.v)))

DEFAULTS == [enabled |-> FALSE, proximityMeters |-> Num(50), dwellSeconds |-> Num(30)]

\* the documents the settings store may hold under the key and the settings
\* objects that may be passed to saveAutoCheckInSettings
SettingsGiven == [enabled : {Bool(TRUE), Bool(FALSE), Undefined},
                  proximityMeters : JsValues, dwellSeconds : JsValues]

\* getAutoCheckInSettings() when getEntity gives the members of stored (none
\* or one document)
getAutoCheckInSettings(stored) ==
  IF stored = {} THEN DEFAULTS
  ELSE LET raw == CHOOSE d \in stored : TRUE
       IN [enabled |-> Boolean(raw.enabled),
           proximityMeters |->
             clamp(OrElse(Number(raw.proximityMeters), DEFAULTS.proximityMeters), 20, 200),
           dwellSeconds |->
             clamp(OrElse(Number(raw.dwellSeconds), DEFAULTS.dwellSeconds), 5, 120)]

\* the document that saveAutoCheckInSettings(settings) puts and returns
AutoCheckInDoc(settings) ==
  [id |-> "autoCheckIn",
   enabled |-> Boolean(settings.enabled),
   proximityMeters |->
     clamp(Nullish(Number(settings.proximityMeters), DEFAULTS.proximityMeters), 20, 200),
   dwellSeconds |->
     clamp(Nullish(Number(settings.dwellSeconds), DEFAULTS.dwellSeconds), 5, 120)]

\* ------------------------------------------------------ cardinal suggestions
\* A location as getNearestByCardinal sees it from the centre: az is the
\* angle atan2 gives for it, in tenths of a degree from north, clockwise
\* positive and in (-1800, 1800]; km is its great-circle distance.
Azimuths == {0, 100, 224, 225, 950, 1124, 1125, 1700,
             -1576, -1575, -1000, -226, -225, -1}
Distances == {1, 2}

\* bearing(): the angle, with 360 degrees added when it is negative
bearing(loc) == IF loc.az < 0 THEN loc.az + 3600 ELSE loc.az

\* haversineKm() from the centre
centreDistance(loc) == loc.km

\* the ranges in tenths of a degree
CARDINALS ==
  [N |-> [min |-> 3375, max |-> 225],
   E |-> [min |-> 225, max |-> 1125],
   S |-> [min |-> 1125, max |-> 2025],
   W |-> [min |-> 2025, max |-> 3375]]

Cardinals == {"N", "E", "S", "W"}

\* bearingInCardinal with the upper end of each range included
bearingInCardinalClosed(b, card) ==
  LET r == CARDINALS[card]
  IN IF r.max > r.min THEN b >= r.min /\ b <= r.max
     ELSE b >= r.min \/ b <= r.max

bearingInCardinal(b, card) ==
  LET r == CARDINALS[card]
  IN IF r.max > r.min THEN b >= r.min /\ b < r.max
     ELSE b >= r.min \/ b < r.max

\* null, as a suggestion and as an entry of the running result
NoSuggestion == [id |-> NULL, az |-> 0, km |-> 0]
NoNearest == [id |-> NULL, az |-> 0, km |-> 0, dist |-> 0]

\* the loop over the candidates: result[card] is replaced by { ...loc, dist }
\* when loc's bearing is in the range of card and nothing is there yet or
\* loc is strictly nearer
RECURSIVE NearestFrom(_, _)
NearestFrom(candidates, nearest) ==
  IF candidates = <<>> THEN nearest
  ELSE LET loc == Head(candidates)
           b == bearing(loc)
           dist == centreDistance(loc)
       IN NearestFrom(Tail(candidates),
            [card \in Cardinals |->
               IF bearingInCardinal(b, card)
                    /\ (nearest[card] = NoNearest \/ dist < nearest[card].dist)
                 THEN [id |-> loc.id, az |-> loc.az, km |-> loc.km, dist |-> dist]
                 ELSE nearest[card]])

\* getNearestByCardinal that takes the visited locations as candidates too
getNearestByCardinalAll(locations, visitedIds) ==
  LET nearest == NearestFrom(locations, [card \in Cardinals |-> NoNearest])
  IN [card \in Cardinals |->
        IF nearest[card] # NoNearest
          THEN [id |-> nearest[card].id, az |-> nearest[card].az, km |-> nearest[card].km]
          ELSE NoSuggestion]

getNearestByCardinal(locations, visitedIds) ==
  LET candidates == SelectSeq(locations, LAMBDA loc : loc.id \notin visitedIds)
      nearest == NearestFrom(candidates, [card \in Cardinals |-> NoNearest])
  IN [card \in Cardinals |->
        IF nearest[card] # NoNearest
          THEN [id |-> nearest[card].id, az |-> nearest[card].az, km |-> nearest[card].km]
          ELSE NoSuggestion]

\* The stops as the disruption panel sees them from the centre (the GPS
\* position, 25 m along the line of Coord): A lies 25 m to the west, B and C
\* lie 50 m to the east.
Site(l) ==
  IF Coord(l) < 25
    THEN [id |-> l, az |-> -900, km |-> 25 - Coord(l)]
    ELSE [id |-> l, az |-> 900, km |-> Coord(l) - 25]

Sites(locs) == [i \in DOMAIN locs |-> Site(locs[i])]

\* -------------------------------------------------------------- the state
VARIABLES
  mode,               \* state.mode
  selectedRunId,      \* state.selectedRunId
  runSession,         \* state.runSession: 0 (null) or the key of the object in heap
  heap,               \* the session objects still referenced, by startedAt
  gpsWatching,        \* state.gpsWatchId != null
  settingsEnabled,    \* autoCheckInSettingsRef.current.enabled
  dwellingLocationId, \* the controller's closure variable
  dwellTimerId,       \* the controller's closure variable, 0 for null
  timers,             \* outstanding setTimeout timers: id -> ticks left
  visits,             \* the visits store (the visit ledger): id -> visit
  activeSessions,     \* the activeSessions store: at most the key "current"
  runCompletions,     \* the runCompletions store, a bag of records
  settingsStore,      \* the persisted auto check-in setting (enabled)
  runLocations,       \* the runLocations store: the links {runId, locationId}
  runs,               \* the runs store: the ids of the runs
  inflight,           \* bag of handlers waiting at an await
  prompt,             \* the session offered by the open resume prompt, or NoSession
  booting,            \* the app was (re)started and has not yet run its start-up check
  now,                \* Date.now(), counted in sessions created and restarts
  isDisruptionMode,   \* state.isDisruptionMode
  suggestionsByDirection, \* the set holding state.suggestionsByDirection, empty for null
  locationPermissionDeniedThisSession, \* state.locationPermissionDeniedThisSession
  deniedNotices,      \* the permission-denied notices shown since the app started
  permission,         \* the browser's geolocation permission for the app
  args,               \* the call of a pure function under check: its name and arguments
  result              \* the set holding its return value, empty before it returns

vars == <<mode, selectedRunId, runSession, heap, gpsWatching, settingsEnabled,
          dwellingLocationId, dwellTimerId, timers, visits, activeSessions,
          runCompletions, settingsStore, runLocations, runs, inflight, prompt,
          booting, now, isDisruptionMode, suggestionsByDirection,
          locationPermissionDeniedThisSession, deniedNotices, permission, args, result>>

appVars == <<mode, selectedRunId, runSession, heap, gpsWatching>>
ctlVars == <<dwellingLocationId, dwellTimerId, timers>>
dbVars == <<visits, activeSessions, runCompletions, settingsStore, runLocations, runs>>
callVars == <<args, result>>
disVars == <<isDisruptionMode, suggestionsByDirection>>
gpsVars == <<locationPermissionDeniedThisSession, deniedNotices, permission>>

\* no function is under check
NoCall == [fn |-> "none"]

\* ------------------------------------------------------------- run model
\* getLocationsForRun: the locations linked to the run, in store order
getLocationsForRun(runId) ==
  SelectSeq(allLocations,
            LAMBDA l : [runId |-> runId, locationId |-> l] \in runLocations)

\* the stops shown on the Operation map for the run
StopsOf(runId) == SeqToSet(getLocationsForRun(runId))

\* the live session object (state.runSession), NoSession for null
Session == IF runSession = 0 THEN NoSession ELSE heap[runSession]

Ctl == Controller(dwellingLocationId, dwellTimerId, timers)

SetCtl(c) ==
  /\ dwellingLocationId' = c.dwellingLocationId
  /\ dwellTimerId' = c.dwellTimerId
  /\ timers' = c.timers

\* a handler waiting at an await: its name, the await it waits at and its locals
NoTask == [h |-> "none", pc |-> 0, loc |-> NULL, vid |-> NoVisitId, sess |-> 0,
           run |-> NULL, fix |-> NoFix, locs |-> <<>>, done |-> {},
           vc |-> 0, tc |-> 0, at |-> 0, enabled |-> FALSE]

Tasks == BagToSet(inflight)

Await(t) == inflight (+) SetToBag({t})
Finished(t) == inflight (-) SetToBag({t})
Continue(t, u) == (inflight (-) SetToBag({t})) (+) SetToBag({u})

CanAwait == BagCardinality(inflight) < MaxInflight

\* the session objects that state.runSession or a waiting finishRun refers to
Referenced(h, ptr, infl) ==
  LET keep == ({ptr} \cup {t.sess : t \in BagToSet(infl)}) \cap DOMAIN h
  IN [k \in keep |-> h[k]]

\* user gestures reach the handlers once start-up is over and no prompt is open
UIReady == ~booting /\ prompt = NoSession

\* the app after createApp on a device with empty stores
AppStarted ==
  /\ mode = "dashboard"
  /\ selectedRunId = NULL
  /\ runSession = 0
  /\ heap = <<>>
  /\ gpsWatching = FALSE
  /\ settingsEnabled = FALSE
  /\ dwellingLocationId = NULL
  /\ dwellTimerId = 0
  /\ timers = <<>>
  /\ visits = <<>>
  /\ activeSessions = <<>>
  /\ runCompletions = EmptyBag
  /\ settingsStore = FALSE
  /\ runLocations = Links("r1", {"A", "B"}) \cup Links("r2", {"C"})
  /\ runs = Runs
  /\ inflight = EmptyBag
  /\ prompt = NoSession
  /\ booting = FALSE
  /\ now = 0
  /\ isDisruptionMode = FALSE
  /\ suggestionsByDirection = {}
  /\ locationPermissionDeniedThisSession = FALSE
  /\ deniedNotices = 0

Init ==
  /\ AppStarted
  /\ permission = "granted"
  /\ args = NoCall
  /\ result = {}

\* ------------------------------------------------------------ mode changes
stopWatchingGPS == FALSE

\* startWatchingGPS: a watch is started in Operation with a run selected
startWatchingGPS(watching, m, runId) ==
  watching \/ (m = "operation" /\ runId # NULL)

\* onModeChange(m) up to its first await
onModeChange(m) ==
  /\ UIReady
  /\ m \in Modes
  /\ mode' = m
  /\ IF m # "operation"
       THEN /\ gpsWatching' = stopWatchingGPS
            /\ SetCtl(cancelAll(Ctl))
            /\ UNCHANGED inflight
       ELSE /\ CanAwait
            /\ inflight' = Await([NoTask EXCEPT !.h = "onModeChange", !.pc = 1])
            /\ UNCHANGED <<gpsWatching, ctlVars>>
  /\ isDisruptionMode' = (isDisruptionMode /\ m = "operation")
  /\ UNCHANGED <<selectedRunId, runSession, heap, settingsEnabled, dbVars, callVars, gpsVars,
                 suggestionsByDirection, prompt, booting, now>>

\* onModeChange("operation") after refreshOperationMap
onModeChangeResumed(t) ==
  /\ t \in Tasks /\ t.h = "onModeChange"
  /\ gpsWatching' = startWatchingGPS(gpsWatching, mode, selectedRunId)
  /\ inflight' = Finished(t)
  /\ UNCHANGED <<mode, selectedRunId, runSession, heap, settingsEnabled, ctlVars,
                 dbVars, callVars, gpsVars, disVars, prompt, booting, now>>

\* ------------------------------------------------------------ run selection
\* onRunSelect that forgets state.runSession = null for the null run
RunSelectedKeepsSession(runId, infl) ==
  /\ selectedRunId' = runId
  /\ IF runId # NULL
       THEN /\ now' = now + 1
            /\ runSession' = now'
            /\ heap' = Referenced(
                 [k \in DOMAIN heap \cup {now'} |->
                    IF k = now' THEN createRunSession(runId, now') ELSE heap[k]],
                 now', infl)
            /\ activeSessions' =
                 saveActiveSession(activeSessions, createRunSession(runId, now'), now')
       ELSE /\ now' = now
            /\ runSession' = runSession
            /\ heap' = Referenced(heap, runSession, infl)
            /\ activeSessions' = clearActiveSession(activeSessions)

\* the body of onRunSelect after its first await
RunSelected(runId, infl) ==
  /\ selectedRunId' = runId
  /\ IF runId # NULL
       THEN /\ now' = now + 1
            /\ runSession' = now'
            /\ heap' = Referenced(
                 [k \in DOMAIN heap \cup {now'} |->
                    IF k = now' THEN createRunSession(runId, now') ELSE heap[k]],
                 now', infl)
            /\ activeSessions' =
                 saveActiveSession(activeSessions, createRunSession(runId, now'), now')
       ELSE /\ now' = now
            /\ runSession' = 0
            /\ heap' = Referenced(heap, 0, infl)
            /\ activeSessions' = clearActiveSession(activeSessions)

\* sessions that the run selections in flight will still create
PendingSessions == Cardinality({t \in Tasks : t.h = "onRunSelect" /\ t.pc = 1 /\ t.run # NULL})

onRunSelect(runId) ==
  /\ UIReady /\ mode = "operation" /\ CanAwait
  /\ runId \in runs \cup {NULL}
  /\ runId # NULL => now + PendingSessions < MaxNow
  /\ IF runSession # 0 /\ selectedRunId # NULL
       THEN /\ activeSessions' = clearActiveSession(activeSessions)
            /\ inflight' = Await([NoTask EXCEPT !.h = "onRunSelect", !.pc = 1, !.run = runId])
            /\ UNCHANGED <<selectedRunId, runSession, heap, now>>
       ELSE /\ inflight' = Await([NoTask EXCEPT !.h = "onRunSelect", !.pc = 2, !.run = runId])
            /\ RunSelected(runId, inflight')
  /\ UNCHANGED <<mode, gpsWatching, settingsEnabled, ctlVars, visits, runCompletions,
                 settingsStore, runLocations, runs, callVars, gpsVars, disVars, prompt, booting>>

onRunSelectCleared(t) ==
  /\ t \in Tasks /\ t.h = "onRunSelect" /\ t.pc = 1
  /\ inflight' = Continue(t, [t EXCEPT !.pc = 2])
  /\ RunSelected(t.run, inflight')
  /\ UNCHANGED <<mode, gpsWatching, settingsEnabled, ctlVars, visits, runCompletions,
                 settingsStore, runLocations, runs, callVars, gpsVars, disVars, prompt, booting>>

onRunSelectSaved(t) ==
  /\ t \in Tasks /\ t.h = "onRunSelect" /\ t.pc = 2
  /\ gpsWatching' = IF t.run = NULL THEN stopWatchingGPS
                    ELSE startWatchingGPS(gpsWatching, mode, selectedRunId)
  /\ inflight' = Finished(t)
  /\ UNCHANGED <<mode, selectedRunId, runSession, heap, settingsEnabled, ctlVars,
                 dbVars, callVars, gpsVars, disVars, prompt, booting, now>>


\* ----------------------------------------------------- manual mark / unmark
\* the session object with key k replaced by v
HeapWith(k, v) == [heap EXCEPT ![k] = v]

\* onMarkVisited(location) up to await saveVisit
MarkVisitedIssued(locationId) ==
  /\ UIReady /\ mode = "operation" /\ CanAwait
  /\ locationId \in StopsOf(selectedRunId)
  /\ runSession # 0
  /\ SetCtl(cancelForLocation(Ctl, locationId))
  /\ LET visitId == makeVisitId(Session, locationId)
     IN /\ visits' = saveVisit(visits,
                       createVisit(visitId, locationId, Session.runId, now, "manual"))
        /\ inflight' = Await([NoTask EXCEPT !.h = "onMarkVisited", !.pc = 1,
                                            !.loc = locationId, !.vid = visitId])
  /\ UNCHANGED <<appVars, settingsEnabled, activeSessions, runCompletions,
                 settingsStore, runLocations, runs, disVars, gpsVars, prompt, booting, now>>

onMarkVisited(locationId) ==
  /\ MarkVisitedIssued(locationId)
  /\ UNCHANGED callVars

\* the rest of a mark handler (manual or auto): markVisited on state.runSession
\* and saveActiveSession; with state.runSession null markVisited throws and
\* the handler ends
MarkSaved(t) ==
  /\ IF runSession # 0
       THEN /\ heap' = HeapWith(runSession, markVisited(Session, t.loc, t.vid))
            /\ activeSessions' =
                 saveActiveSession(activeSessions, heap'[runSession], now)
       ELSE UNCHANGED <<heap, activeSessions>>
  /\ UNCHANGED <<mode, selectedRunId, runSession, gpsWatching, settingsEnabled,
                 ctlVars, visits, runCompletions, settingsStore, runLocations, runs, callVars, gpsVars, disVars, prompt, booting, now>>

\* onMarkVisited after await saveVisit; in disruption mode the suggestions are
\* recomputed once getLocationsForRun(...) has answered
onMarkVisitedSaved(t) ==
  /\ t \in Tasks /\ t.h = "onMarkVisited" /\ t.pc = 1
  /\ MarkSaved(t)
  /\ inflight' = IF runSession # 0 /\ isDisruptionMode
                   THEN Continue(t, [t EXCEPT !.pc = 2,
                                              !.locs = getLocationsForRun(selectedRunId)])
                   ELSE Finished(t)

\* the suggestions of the disruption panel for the stops locs, seen from the
\* centre; state.runSession.visitedLocationIds throws when the session is null
Recomputed(locs) ==
  IF runSession # 0
    THEN {getNearestByCardinal(Sites(locs), Session.visitedLocationIds)}
    ELSE suggestionsByDirection

\* the then-callback of onMarkVisited's getLocationsForRun(...)
onMarkVisitedLocated(t) ==
  /\ t \in Tasks /\ t.h = "onMarkVisited" /\ t.pc = 2
  /\ suggestionsByDirection' = Recomputed(t.locs)
  /\ inflight' = Finished(t)
  /\ UNCHANGED <<appVars, settingsEnabled, ctlVars, dbVars, callVars, gpsVars, isDisruptionMode,
                 prompt, booting, now>>

\* onMarkUnvisited(location) up to await deleteVisit, or to await
\* saveActiveSession when the session holds no visit id for the stop
MarkUnvisitedIssued(locationId) ==
  /\ UIReady /\ mode = "operation" /\ CanAwait
  /\ locationId \in StopsOf(selectedRunId)
  /\ runSession # 0
  /\ LET visitId == getVisitId(Session, locationId)
     IN /\ heap' = HeapWith(runSession, markUnvisited(Session, locationId))
        /\ IF visitId # NoVisitId
             THEN /\ visits' = deleteVisit(visits, visitId)
                  /\ inflight' = Await([NoTask EXCEPT !.h = "onMarkUnvisited", !.pc = 1,
                                                      !.loc = locationId])
                  /\ UNCHANGED activeSessions
             ELSE IF isDisruptionMode
               THEN /\ inflight' = Await([NoTask EXCEPT
                                            !.h = "onMarkUnvisited", !.pc = 2,
                                            !.loc = locationId,
                                            !.locs = getLocationsForRun(selectedRunId)])
                    /\ UNCHANGED <<visits, activeSessions>>
               ELSE /\ activeSessions' =
                         saveActiveSession(activeSessions, heap'[runSession], now)
                    /\ UNCHANGED <<visits, inflight>>
  /\ UNCHANGED <<mode, selectedRunId, runSession, gpsWatching, settingsEnabled,
                 ctlVars, runCompletions, settingsStore, runLocations, runs, disVars,
                 gpsVars, prompt, booting, now>>

onMarkUnvisited(locationId) ==
  /\ MarkUnvisitedIssued(locationId)
  /\ UNCHANGED callVars

\* onMarkUnvisited after await deleteVisit: saveActiveSession(state.runSession),
\* which throws when state.runSession is null
onMarkUnvisitedDeleted(t) ==
  /\ t \in Tasks /\ t.h = "onMarkUnvisited" /\ t.pc = 1
  /\ IF isDisruptionMode
       THEN /\ inflight' = Continue(t, [t EXCEPT !.pc = 2,
                                                 !.locs = getLocationsForRun(selectedRunId)])
            /\ UNCHANGED activeSessions
       ELSE /\ inflight' = Finished(t)
            /\ activeSessions' = IF runSession # 0
                                   THEN saveActiveSession(activeSessions, Session, now)
                                   ELSE activeSessions
  /\ UNCHANGED <<appVars, settingsEnabled, ctlVars, visits, runCompletions,
                 settingsStore, runLocations, runs, callVars, gpsVars, disVars, prompt, booting, now>>

\* onMarkUnvisited in disruption mode after await getLocationsForRun: the
\* suggestions are recomputed, then saveActiveSession(state.runSession)
onMarkUnvisitedLocated(t) ==
  /\ t \in Tasks /\ t.h = "onMarkUnvisited" /\ t.pc = 2
  /\ suggestionsByDirection' = Recomputed(t.locs)
  /\ activeSessions' = IF runSession # 0
                         THEN saveActiveSession(activeSessions, Session, now)
                         ELSE activeSessions
  /\ inflight' = Finished(t)
  /\ UNCHANGED <<appVars, settingsEnabled, ctlVars, visits, runCompletions,
                 settingsStore, runLocations, runs, callVars, gpsVars, isDisruptionMode,
                 prompt, booting, now>>


\* ----------------------------------------------------------------- finishRun
\* finishRun calls that have not yet written their completion record
PendingCompletions == Cardinality({t \in Tasks : t.h = "finishRun" /\ t.pc <= 2})

\* finishRun() up to await getLocationsForRun
finishRun ==
  /\ UIReady /\ mode = "operation" /\ CanAwait
  /\ BagCardinality(runCompletions) + PendingCompletions < MaxCompletions
  /\ runSession # 0 /\ selectedRunId # NULL
  /\ SetCtl(cancelAll(Ctl))
  /\ inflight' = Await([NoTask EXCEPT !.h = "finishRun", !.pc = 1,
                                      !.sess = runSession, !.run = selectedRunId,
                                      !.locs = getLocationsForRun(selectedRunId)])
  /\ isDisruptionMode' = FALSE
  /\ UNCHANGED <<appVars, settingsEnabled, dbVars, callVars, gpsVars, suggestionsByDirection,
                 prompt, booting, now>>

\* the milliseconds of a minute; the clock `now` counts minutes
MS_PER_MINUTE == 60000

\* Math.round(n / d) for integers n and d > 0: the nearest integer, a half
\* goes up
MathRound(n, d) == (2 * n + d) \div (2 * d)

\* the session's startedAt as sessionFromStorage leaves it: the instant of a
\* date string, NaN for a string that is no date, else Number(x) || Date.now()
startedAtValue(startedAt, t) ==
  IF startedAt.kind = "text" THEN NaN ELSE Num(startedAtFromStorage(startedAt, t))

\* typeof session.startedAt === "number"
\*   ? Math.round((Date.now() - session.startedAt) / 60000) : null,
\* then durationMinutes ?? null in addRunCompletion
durationMinutes(startedAt, dateNow) ==
  LET minutes ==
        CASE startedAt.t = "number" -> Num(MathRound(dateNow - startedAt.v, MS_PER_MINUTE))
          [] startedAt.t = "NaN" -> NaN
          [] startedAt.t = "Infinity" -> Infinite(0 - startedAt.v)
          [] OTHER -> [t |-> "null", v |-> 0]
  IN Nullish(minutes, [t |-> "null", v |-> 0])

\* the completion record of a finishRun call
Completion(t) ==
  [runId |-> t.run, visitedCount |-> t.vc, totalCount |-> t.tc,
   completedAt |-> t.at,
   durationMinutes |-> durationMinutes(Num(heap[t.sess].startedAt * MS_PER_MINUTE),
                                       t.at * MS_PER_MINUTE).v]

\* the for-loop over visitedIds (a live Set: a stop added while the loop waits
\* is still reached, a stop removed is skipped), one saveVisit per turn, and
\* addRunCompletion when the loop is over
FinishLoop(t, u) ==
  LET session == heap[t.sess]
      left == session.visitedLocationIds \ u.done
  IN IF left = {}
       THEN /\ runCompletions' = addRunCompletion(runCompletions, Completion(u))
            /\ inflight' = Continue(t, [u EXCEPT !.pc = 3])
            /\ UNCHANGED visits
       ELSE \E locationId \in left :
              LET derived == "visit-" \o t.run \o "-" \o locationId \o "-"
                               \o ToString(session.startedAt)
                  visitId == IF getVisitId(session, locationId) # NoVisitId
                               THEN getVisitId(session, locationId) ELSE derived
              IN /\ visits' = saveVisit(visits,
                                createVisit(visitId, locationId, t.run, now, "manual"))
                 /\ inflight' = Continue(t, [u EXCEPT !.pc = 2, !.done = @ \cup {locationId}])
                 /\ UNCHANGED runCompletions

\* finishRun after await getLocationsForRun: the counts, then the loop
finishRunLocated(t) ==
  /\ t \in Tasks /\ t.h = "finishRun" /\ t.pc = 1
  /\ FinishLoop(t, [t EXCEPT !.tc = Len(t.locs),
                             !.vc = Cardinality(heap[t.sess].visitedLocationIds),
                             !.at = now])
  /\ UNCHANGED <<appVars, settingsEnabled, ctlVars, activeSessions, settingsStore,
                 runLocations, runs, callVars, gpsVars, disVars, prompt, booting, now>>

\* finishRun after an await saveVisit of the loop
finishRunVisitSaved(t) ==
  /\ t \in Tasks /\ t.h = "finishRun" /\ t.pc = 2
  /\ FinishLoop(t, t)
  /\ UNCHANGED <<appVars, settingsEnabled, ctlVars, activeSessions, settingsStore,
                 runLocations, runs, callVars, gpsVars, disVars, prompt, booting, now>>

\* finishRun after await addRunCompletion: the session ends
finishRunCompleted(t) ==
  /\ t \in Tasks /\ t.h = "finishRun" /\ t.pc = 3
  /\ selectedRunId' = NULL
  /\ runSession' = 0
  /\ gpsWatching' = stopWatchingGPS
  /\ activeSessions' = clearActiveSession(activeSessions)
  /\ inflight' = Continue(t, [t EXCEPT !.pc = 4, !.sess = 0])
  /\ heap' = Referenced(heap, 0, inflight')
  /\ UNCHANGED <<mode, settingsEnabled, ctlVars, visits, runCompletions,
                 settingsStore, runLocations, runs, callVars, gpsVars, disVars, prompt, booting, now>>

\* finishRun after await clearActiveSession: shell.setMode("dashboard")
finishRunCleared(t) ==
  /\ t \in Tasks /\ t.h = "finishRun" /\ t.pc = 4
  /\ mode' = "dashboard"
  /\ gpsWatching' = stopWatchingGPS
  /\ SetCtl(cancelAll(Ctl))
  /\ inflight' = Finished(t)
  /\ UNCHANGED <<selectedRunId, runSession, heap, settingsEnabled, dbVars, callVars, gpsVars, disVars,
                 prompt, booting, now>>

\* ------------------------------------------------------------ auto check-in
\* the watchPosition callback: update(position) up to await getLocations
positionFix(fix) ==
  /\ gpsWatching /\ CanAwait
  /\ permission = "granted"
  /\ fix \in AllFixes
  /\ runSession # 0 /\ selectedRunId # NULL /\ settingsEnabled
  /\ inflight' = Await([NoTask EXCEPT !.h = "update", !.pc = 1, !.fix = fix,
                                      !.locs = getLocationsForRun(selectedRunId)])
  /\ UNCHANGED <<appVars, settingsEnabled, ctlVars, dbVars, callVars, gpsVars, disVars, prompt, booting, now>>

\* the mutant of the error callback: the notice is shown at every error
NoticeAlways(denied) == TRUE

\* the error callback shows the notice when it was not yet shown
NoticeDue(denied) == ~denied

\* the watchPosition error callback: code 1 is PERMISSION_DENIED, 2 and 3 are
\* position unavailable and timeout
geolocationError(code) ==
  /\ gpsWatching
  /\ code \in {1, 2, 3}
  /\ code = 1 <=> permission = "denied"
  /\ IF code = 1 /\ NoticeDue(locationPermissionDeniedThisSession)
       THEN /\ deniedNotices < MaxNotices
            /\ locationPermissionDeniedThisSession' = TRUE
            /\ deniedNotices' = deniedNotices + 1
       ELSE UNCHANGED <<locationPermissionDeniedThisSession, deniedNotices>>
  /\ UNCHANGED <<appVars, settingsEnabled, ctlVars, dbVars, callVars, disVars, inflight,
                 permission, prompt, booting, now>>

\* update(position) after await getLocations
update(t) ==
  /\ t \in Tasks /\ t.h = "update"
  /\ SetCtl(updateController(Ctl, t.fix, t.locs, Session.visitedLocationIds))
  /\ inflight' = Finished(t)
  /\ UNCHANGED <<appVars, settingsEnabled, dbVars, callVars, gpsVars, disVars, prompt, booting, now>>

\* a tick of the clock that the dwell timers count
tick ==
  /\ \E id \in DOMAIN timers : timers[id] > 0
  /\ timers' = [id \in DOMAIN timers |-> IF timers[id] > 0 THEN timers[id] - 1 ELSE 0]
  /\ UNCHANGED <<appVars, settingsEnabled, dwellingLocationId, dwellTimerId, dbVars, callVars, gpsVars, disVars,
                 inflight, prompt, booting, now>>

\* the dwell timer's callback, and onAutoVisit up to await saveVisit
dwellTimerFired(id) ==
  /\ id \in DOMAIN timers /\ timers[id] = 0
  /\ SetCtl(dwellExpired(Ctl, id))
  /\ IF runSession = 0 \/ selectedRunId = NULL
       THEN UNCHANGED <<visits, inflight>>
       ELSE LET visitId == makeVisitId(Session, dwellingLocationId)
            IN /\ CanAwait
               /\ visits' = saveVisit(visits,
                     createVisit(visitId, dwellingLocationId, Session.runId, now, "auto"))
               /\ inflight' = Await([NoTask EXCEPT !.h = "onAutoVisit", !.pc = 1,
                                        !.loc = dwellingLocationId, !.vid = visitId])
  /\ UNCHANGED <<appVars, settingsEnabled, activeSessions, runCompletions,
                 settingsStore, runLocations, runs, callVars, gpsVars, disVars, prompt, booting, now>>

onAutoVisitSaved(t) ==
  /\ t \in Tasks /\ t.h = "onAutoVisit"
  /\ MarkSaved(t)
  /\ inflight' = Finished(t)

\* ------------------------------------------------------------ disruption mode
\* enterDisruption() up to the answer of getLocationsForRun(...)
enterDisruption ==
  /\ UIReady /\ CanAwait
  /\ mode = "operation" /\ selectedRunId # NULL /\ runSession # 0
  /\ isDisruptionMode' = TRUE
  /\ inflight' = Await([NoTask EXCEPT !.h = "enterDisruption", !.pc = 1,
                                      !.locs = getLocationsForRun(selectedRunId)])
  /\ UNCHANGED <<appVars, settingsEnabled, ctlVars, dbVars, callVars, gpsVars,
                 suggestionsByDirection, prompt, booting, now>>

\* the then-callback of enterDisruption: the suggestions are computed and the
\* panel is created
enterDisruptionLocated(t) ==
  /\ t \in Tasks /\ t.h = "enterDisruption"
  /\ suggestionsByDirection' = Recomputed(t.locs)
  /\ inflight' = Finished(t)
  /\ UNCHANGED <<appVars, settingsEnabled, ctlVars, dbVars, callVars, gpsVars, isDisruptionMode,
                 prompt, booting, now>>

\* the panel's close button
exitDisruption ==
  /\ UIReady
  /\ isDisruptionMode
  /\ isDisruptionMode' = FALSE
  /\ suggestionsByDirection' = {}
  /\ UNCHANGED <<appVars, settingsEnabled, ctlVars, dbVars, callVars, gpsVars, inflight,
                 prompt, booting, now>>

\* the settings panel's onSave(s) up to await saveAutoCheckInSettings: the
\* document is put into the settings store
saveAutoCheckInSettings(enabled) ==
  /\ UIReady /\ CanAwait
  /\ enabled \in BOOLEAN
  /\ settingsStore' = enabled
  /\ inflight' = Await([NoTask EXCEPT !.h = "onSave", !.pc = 1, !.enabled = enabled])
  /\ UNCHANGED <<appVars, settingsEnabled, ctlVars, visits, activeSessions,
                 runCompletions, runLocations, runs, callVars, gpsVars, disVars, prompt, booting, now>>

\* onSave(s) after the await: autoCheckInSettingsRef.current = { ...s }
onSaveSettingsSaved(t) ==
  /\ t \in Tasks /\ t.h = "onSave"
  /\ settingsEnabled' = t.enabled
  /\ inflight' = Finished(t)
  /\ UNCHANGED <<appVars, ctlVars, dbVars, callVars, gpsVars, disVars, prompt, booting, now>>

\* ------------------------------------------------------------ run management
\* onDeleteRun(runId) up to the first await of deleteRunAndLinks: the links
\* are read
onDeleteRun(runId) ==
  /\ UIReady /\ CanAwait
  /\ runId \in runs
  /\ inflight' = Await([NoTask EXCEPT !.h = "onDeleteRun", !.pc = 1, !.run = runId,
                                      !.locs = getLocationsForRun(runId)])
  /\ UNCHANGED <<appVars, settingsEnabled, ctlVars, dbVars, callVars, gpsVars, disVars, prompt, booting, now>>

\* deleteRunAndLinks after an await: the next link is deleted, and after the
\* last one the run
onDeleteRunStep(t) ==
  /\ t \in Tasks /\ t.h = "onDeleteRun"
  /\ IF t.locs # <<>>
       THEN /\ runLocations' = runLocations \ {[runId |-> t.run, locationId |-> Head(t.locs)]}
            /\ inflight' = Continue(t, [t EXCEPT !.locs = Tail(@)])
            /\ UNCHANGED runs
       ELSE /\ runs' = runs \ {t.run}
            /\ inflight' = Finished(t)
            /\ UNCHANGED runLocations
  /\ UNCHANGED <<appVars, settingsEnabled, ctlVars, visits, activeSessions, runCompletions,
                 settingsStore, callVars, gpsVars, disVars, prompt, booting, now>>

\* the run checkbox of the Maintenance bottom sheet: addLocationToRun or
\* removeLocationFromRun for the stop of the sheet
onRunToggle(runId, locationId, checked) ==
  /\ UIReady /\ mode = "maintenance"
  /\ runId \in runs /\ locationId \in Locations
  /\ runLocations' =
       IF checked THEN runLocations \cup Links(runId, {locationId})
       ELSE runLocations \ Links(runId, {locationId})
  /\ UNCHANGED <<appVars, settingsEnabled, ctlVars, visits, activeSessions, runCompletions,
                 settingsStore, runs, callVars, gpsVars, disVars, inflight, prompt, booting, now>>

\* ------------------------------------------------------------------ backup
\* The active-session records of a backup file: each of runId,
\* visitedLocationIds, visitIdsByLocation and startedAt is there or missing.
BackupRecords ==
  [id : {"current"},
   runId : {"r1", NULL},
   visitedLocationIds : {[present |-> TRUE, items |-> <<"A">>],
                         [present |-> FALSE, items |-> <<>>]},
   visitIdsByLocation : {[present |-> TRUE, entries |-> {<<"A", "visit-r1-A-1">>}],
                         [present |-> FALSE, entries |-> {}]},
   startedAt : {toISOString(1), [kind |-> "undefined", ms |-> 0]},
   lastUpdatedAt : {1}]

\* importData(json) of a backup whose activeSessions holds the record: the
\* record is put into the activeSessions store
importData(record) ==
  /\ UIReady
  /\ record \in BackupRecords
  /\ activeSessions' = putEntity(activeSessions, record.id, record)
  /\ UNCHANGED <<appVars, settingsEnabled, ctlVars, visits, runCompletions, settingsStore,
                 runLocations, runs, callVars, gpsVars, disVars, inflight, prompt, booting, now>>

\* ------------------------------------------------------- restart and resume
\* the process ends and createApp runs again: memory is lost, the stores stay
restart ==
  /\ now < MaxNow
  /\ now' = now + 1
  /\ mode' = "dashboard"
  /\ selectedRunId' = NULL
  /\ runSession' = 0
  /\ heap' = <<>>
  /\ gpsWatching' = FALSE
  /\ settingsEnabled' = FALSE
  /\ SetCtl(Controller(NULL, 0, <<>>))
  /\ inflight' = EmptyBag
  /\ prompt' = NoSession
  /\ booting' = TRUE
  /\ isDisruptionMode' = FALSE
  /\ suggestionsByDirection' = {}
  /\ locationPermissionDeniedThisSession' = FALSE
  /\ deniedNotices' = 0
  /\ UNCHANGED <<dbVars, callVars, permission>>

\* the start-up chain: the settings are read, then checkForActiveSession
checkForActiveSession ==
  /\ booting
  /\ booting' = FALSE
  /\ settingsEnabled' = settingsStore
  /\ LET stored == loadActiveSession(activeSessions)
     IN IF stored = {} THEN UNCHANGED <<activeSessions, prompt>>
        ELSE LET data == CHOOSE d \in stored : TRUE
                 session == sessionFromStorage(data, now)
             IN IF data.runId = NULL THEN UNCHANGED <<activeSessions, prompt>>
                ELSE IF data.runId \notin runs \/ session = NoSession
                  THEN /\ activeSessions' = clearActiveSession(activeSessions)
                       /\ UNCHANGED prompt
                  ELSE /\ prompt' = session
                       /\ UNCHANGED activeSessions
  /\ UNCHANGED <<appVars, ctlVars, visits, runCompletions, settingsStore, runLocations, runs, callVars, gpsVars, disVars,
                 inflight, now>>

\* the prompt's Resume button: resumeSession(session) and onModeChange("operation")
resumeSession ==
  /\ ~booting /\ prompt # NoSession
  /\ selectedRunId' = prompt.runId
  /\ runSession' = prompt.startedAt
  /\ inflight' = Await([NoTask EXCEPT !.h = "onModeChange", !.pc = 1])
  /\ heap' = Referenced([k \in DOMAIN heap \cup {prompt.startedAt} |->
                           IF k = prompt.startedAt THEN prompt ELSE heap[k]],
                        prompt.startedAt, inflight')
  /\ mode' = "operation"
  /\ prompt' = NoSession
  /\ UNCHANGED <<gpsWatching, settingsEnabled, ctlVars, dbVars, callVars, gpsVars, disVars, booting, now>>

\* the prompt's Start New button: discardSession()
discardSession ==
  /\ ~booting /\ prompt # NoSession
  /\ activeSessions' = clearActiveSession(activeSessions)
  /\ prompt' = NoSession
  /\ UNCHANGED <<appVars, settingsEnabled, ctlVars, visits, runCompletions,
                 settingsStore, runLocations, runs, callVars, gpsVars, disVars, inflight, booting, now>>

\* ------------------------------------------------------------ specification
Next ==
  \/ \E m \in Modes : onModeChange(m)
  \/ \E t \in Tasks : onModeChangeResumed(t)
  \/ \E r \in Runs \cup {NULL} : onRunSelect(r)
  \/ \E t \in Tasks : onRunSelectCleared(t)
  \/ \E t \in Tasks : onRunSelectSaved(t)
  \/ \E l \in Locations : onMarkVisited(l)
  \/ \E t \in Tasks : onMarkVisitedSaved(t)
  \/ \E l \in Locations : onMarkUnvisited(l)
  \/ \E t \in Tasks : onMarkUnvisitedDeleted(t)
  \/ finishRun
  \/ \E t \in Tasks : finishRunLocated(t)
  \/ \E t \in Tasks : finishRunVisitSaved(t)
  \/ \E t \in Tasks : finishRunCompleted(t)
  \/ \E t \in Tasks : finishRunCleared(t)
  \/ \E f \in Fixes : positionFix(f)
  \/ \E code \in {1, 2, 3} : geolocationError(code)
  \/ \E t \in Tasks : update(t)
  \/ tick
  \/ \E id \in DOMAIN timers : dwellTimerFired(id)
  \/ \E t \in Tasks : onAutoVisitSaved(t)
  \/ \E t \in Tasks : onMarkVisitedLocated(t)
  \/ \E t \in Tasks : onMarkUnvisitedLocated(t)
  \/ enterDisruption
  \/ \E t \in Tasks : enterDisruptionLocated(t)
  \/ exitDisruption
  \/ \E e \in BOOLEAN : saveAutoCheckInSettings(e)
  \/ \E t \in Tasks : onSaveSettingsSaved(t)
  \/ \E r \in Runs : onDeleteRun(r)
  \/ \E t \in Tasks : onDeleteRunStep(t)
  \/ \E r \in Runs, l \in Locations, checked \in BOOLEAN : onRunToggle(r, l, checked)
  \/ \E record \in BackupRecords : importData(record)
  \/ restart
  \/ checkForActiveSession
  \/ resumeSession
  \/ discardSession

Spec == Init /\ [][Next]_vars


\* ------------------------------------------------------ one run attempt
\* A run in progress: the state after Operation was entered and run runId was
\* selected, with the auto check-in setting saved as enabled.
RunStarted(runId, enabled) ==
  /\ mode = "operation"
  /\ selectedRunId = runId
  /\ runSession = 1
  /\ heap = [k \in {1} |-> createRunSession(runId, 1)]
  /\ gpsWatching = TRUE
  /\ settingsEnabled = enabled
  /\ dwellingLocationId = NULL
  /\ dwellTimerId = 0
  /\ timers = <<>>
  /\ visits = <<>>
  /\ activeSessions = saveActiveSession(<<>>, createRunSession(runId, 1), 1)
  /\ runCompletions = EmptyBag
  /\ settingsStore = enabled
  /\ runs = Runs
  /\ inflight = EmptyBag
  /\ prompt = NoSession
  /\ booting = FALSE
  /\ now = 1
  /\ isDisruptionMode = FALSE
  /\ suggestionsByDirection = {}
  /\ locationPermissionDeniedThisSession = FALSE
  /\ deniedNotices = 0

RunInProgress(runId, enabled) ==
  /\ RunStarted(runId, enabled)
  /\ permission = "granted"
  /\ args = NoCall
  /\ result = {}

\* One attempt at run r1 with the stops A, B and C: marks and undos, and
\* restarts at any moment followed by the resume prompt.
InitRun ==
  /\ RunInProgress("r1", FALSE)
  /\ runLocations = Links("r1", {"A", "B", "C"})

NextRun ==
  \/ \E l \in Locations : onMarkVisited(l)
  \/ \E t \in Tasks : onMarkVisitedSaved(t)
  \/ \E l \in Locations : onMarkUnvisited(l)
  \/ \E t \in Tasks : onMarkUnvisitedDeleted(t)
  \/ restart
  \/ checkForActiveSession
  \/ resumeSession
  \/ discardSession
  \/ \E t \in Tasks : onModeChangeResumed(t)

SpecRun == InitRun /\ [][NextRun]_vars

\* The same attempt up to its end: marks, finishRun invoked at any moment
\* (also while handlers are in flight), restarts and the resume prompt.
NextFinish ==
  \/ \E l \in Locations : onMarkVisited(l)
  \/ \E t \in Tasks : onMarkVisitedSaved(t)
  \/ finishRun
  \/ \E t \in Tasks : finishRunLocated(t)
  \/ \E t \in Tasks : finishRunVisitSaved(t)
  \/ \E t \in Tasks : finishRunCompleted(t)
  \/ \E t \in Tasks : finishRunCleared(t)
  \/ restart
  \/ checkForActiveSession
  \/ resumeSession
  \/ discardSession
  \/ \E t \in Tasks : onModeChangeResumed(t)

SpecFinish == InitRun /\ [][NextFinish]_vars

\* The same attempt with its operations performed one after the other: the
\* user's gestures and the restart wait until no handler is in flight.
Idle == inflight = EmptyBag

NextScenario ==
  \/ Idle /\ \E l \in Locations : onMarkVisited(l)
  \/ \E t \in Tasks : onMarkVisitedSaved(t)
  \/ Idle /\ \E l \in Locations : onMarkUnvisited(l)
  \/ \E t \in Tasks : onMarkUnvisitedDeleted(t)
  \/ Idle /\ finishRun
  \/ \E t \in Tasks : finishRunLocated(t)
  \/ \E t \in Tasks : finishRunVisitSaved(t)
  \/ \E t \in Tasks : finishRunCompleted(t)
  \/ \E t \in Tasks : finishRunCleared(t)
  \/ Idle /\ restart
  \/ checkForActiveSession
  \/ resumeSession
  \/ discardSession
  \/ \E t \in Tasks : onModeChangeResumed(t)

SpecScenario == InitRun /\ [][NextScenario]_vars

\* Auto check-in during one attempt at run r1 with the stops A and B:
\* position fixes, the dwell timer and the manual marks (no undo).
InitAuto ==
  /\ RunInProgress("r1", TRUE)
  /\ runLocations = Links("r1", {"A", "B"}) \cup Links("r2", {"C"})

NextAuto ==
  \/ \E f \in Fixes : positionFix(f)
  \/ \E t \in Tasks : update(t)
  \/ tick
  \/ \E id \in DOMAIN timers : dwellTimerFired(id)
  \/ \E t \in Tasks : onAutoVisitSaved(t)
  \/ \E l \in Locations : onMarkVisited(l)
  \/ \E t \in Tasks : onMarkVisitedSaved(t)

SpecAuto == InitAuto /\ [][NextAuto]_vars


\* Every operation of the controller during the attempt at run r1: update()
\* for any fix, the expiry of the timer, cancelForLocation by a manual mark,
\* and cancelAll by a change of mode and by finishRun.
NextController ==
  \/ \E f \in Fixes : positionFix(f)
  \/ \E t \in Tasks : update(t)
  \/ tick
  \/ \E id \in DOMAIN timers : dwellTimerFired(id)
  \/ \E t \in Tasks : onAutoVisitSaved(t)
  \/ \E l \in Locations : onMarkVisited(l)
  \/ \E t \in Tasks : onMarkVisitedSaved(t)
  \/ \E m \in Modes : onModeChange(m)
  \/ \E t \in Tasks : onModeChangeResumed(t)
  \/ finishRun
  \/ \E t \in Tasks : finishRunLocated(t)
  \/ \E t \in Tasks : finishRunVisitSaved(t)
  \/ \E t \in Tasks : finishRunCompleted(t)
  \/ \E t \in Tasks : finishRunCleared(t)

SpecController == InitAuto /\ [][NextController]_vars

\* Fixes of every position, accuracy and speed arrive during the attempt at
\* run r1 while the dwell timer runs.
NextGate ==
  \/ \E f \in AllFixes : positionFix(f)
  \/ \E t \in Tasks : update(t)
  \/ tick
  \/ \E id \in DOMAIN timers : dwellTimerFired(id)
  \/ \E t \in Tasks : onAutoVisitSaved(t)

SpecGate == InitAuto /\ [][NextGate]_vars

\* The stops of run r1 (A and B) change during its attempt: the user marks
\* and unmarks stops, switches to Maintenance, adds stops to the run and
\* removes stops from it, returns to Operation and finishes the run.
InitMembership ==
  /\ RunInProgress("r1", FALSE)
  /\ runLocations = Links("r1", {"A", "B"})

NextMembership ==
  \/ \E l \in Locations : onMarkVisited(l)
  \/ \E t \in Tasks : onMarkVisitedSaved(t)
  \/ \E l \in Locations : onMarkUnvisited(l)
  \/ \E t \in Tasks : onMarkUnvisitedDeleted(t)
  \/ \E m \in {"maintenance", "operation"} : onModeChange(m)
  \/ \E t \in Tasks : onModeChangeResumed(t)
  \/ \E l \in {"A", "B"}, checked \in BOOLEAN : onRunToggle("r1", l, checked)
  \/ finishRun
  \/ \E t \in Tasks : finishRunLocated(t)
  \/ \E t \in Tasks : finishRunVisitSaved(t)
  \/ \E t \in Tasks : finishRunCompleted(t)
  \/ \E t \in Tasks : finishRunCleared(t)

SpecMembership == InitMembership /\ [][NextMembership]_vars

\* The slot receives records of a backup file during the attempt at run r1,
\* among them the record of the attempt without its visit ids (as written
\* before visit ids were tracked): the user marks and unmarks stops, imports,
\* restarts the app and answers the prompt.
NextFallback ==
  \/ \E l \in Locations : onMarkVisited(l)
  \/ \E t \in Tasks : onMarkVisitedSaved(t)
  \/ \E l \in Locations : onMarkUnvisited(l)
  \/ \E t \in Tasks : onMarkUnvisitedDeleted(t)
  \/ \E record \in BackupRecords : importData(record)
  \/ restart
  \/ checkForActiveSession
  \/ resumeSession
  \/ discardSession
  \/ \E t \in Tasks : onModeChangeResumed(t)

SpecFallback == InitMembership /\ [][NextFallback]_vars

\* the precise, slow fixes: one at each position
SlowFixes == {f \in Fixes : f.accuracy = 10 /\ f.speed = 1}

\* Run changes during auto check-in: from the attempt at run r1 (stops A and
\* B; run r2 has the stop C) the user selects runs and leaves and re-enters
\* Operation, while position fixes arrive and the dwell timer runs.
NextSwitch ==
  \/ \E f \in SlowFixes : positionFix(f)
  \/ \E t \in Tasks : update(t)
  \/ tick
  \/ \E id \in DOMAIN timers : dwellTimerFired(id)
  \/ \E t \in Tasks : onAutoVisitSaved(t)
  \/ \E r \in Runs \cup {NULL} : onRunSelect(r)
  \/ \E t \in Tasks : onRunSelectCleared(t)
  \/ \E t \in Tasks : onRunSelectSaved(t)
  \/ \E m \in Modes : onModeChange(m)
  \/ \E t \in Tasks : onModeChangeResumed(t)

SpecSwitch == InitAuto /\ [][NextSwitch]_vars

\* The auto check-in setting is changed during the attempt at run r1, while
\* position fixes arrive and the dwell timer runs.
NextSettings ==
  \/ \E f \in SlowFixes : positionFix(f)
  \/ \E t \in Tasks : update(t)
  \/ tick
  \/ \E id \in DOMAIN timers : dwellTimerFired(id)
  \/ \E t \in Tasks : onAutoVisitSaved(t)
  \/ \E e \in BOOLEAN : saveAutoCheckInSettings(e)
  \/ \E t \in Tasks : onSaveSettingsSaved(t)

SpecSettings == InitAuto /\ [][NextSettings]_vars


\* The attempt at run r1 while runs are deleted in run management: marks,
\* the deletion of a run, restarts and the resume prompt.
NextStale ==
  \/ \E l \in Locations : onMarkVisited(l)
  \/ \E t \in Tasks : onMarkVisitedSaved(t)
  \/ \E r \in Runs : onDeleteRun(r)
  \/ \E t \in Tasks : onDeleteRunStep(t)
  \/ restart
  \/ checkForActiveSession
  \/ resumeSession
  \/ discardSession
  \/ \E t \in Tasks : onModeChangeResumed(t)

SpecStale == InitRun /\ [][NextStale]_vars

\* the precise, slow fix in range of stop A
NearA == {f \in SlowFixes : f.pos = 25}

\* The life of the run session: from the attempt at run r1 (stop A; run r2
\* has the stop C) with auto check-in enabled, the user marks and unmarks,
\* selects run r1 anew and clears the selection, finishes the run and re-enters
\* Operation; fixes near A arrive; the app is restarted and the prompt
\* answered.
InitMirror ==
  /\ RunInProgress("r1", TRUE)
  /\ runLocations = Links("r1", {"A"}) \cup Links("r2", {"C"})

NextMirror ==
  \/ \E r \in {"r1", NULL} : onRunSelect(r)
  \/ \E t \in Tasks : onRunSelectCleared(t)
  \/ \E t \in Tasks : onRunSelectSaved(t)
  \/ \E l \in Locations : onMarkVisited(l)
  \/ \E t \in Tasks : onMarkVisitedSaved(t)
  \/ \E l \in Locations : onMarkUnvisited(l)
  \/ \E t \in Tasks : onMarkUnvisitedDeleted(t)
  \/ finishRun
  \/ \E t \in Tasks : finishRunLocated(t)
  \/ \E t \in Tasks : finishRunVisitSaved(t)
  \/ \E t \in Tasks : finishRunCompleted(t)
  \/ \E t \in Tasks : finishRunCleared(t)
  \/ onModeChange("operation")
  \/ \E t \in Tasks : onModeChangeResumed(t)
  \/ \E f \in NearA : positionFix(f)
  \/ \E t \in Tasks : update(t)
  \/ tick
  \/ \E id \in DOMAIN timers : dwellTimerFired(id)
  \/ \E t \in Tasks : onAutoVisitSaved(t)
  \/ restart
  \/ checkForActiveSession
  \/ resumeSession
  \/ discardSession

SpecMirror == InitMirror /\ [][NextMirror]_vars

\* The end of an attempt with auto check-in: fixes near A arrive, the dwell
\* timer runs, stops are marked by hand, and the run is finished.
NextAutoFinish ==
  \/ \E f \in NearA : positionFix(f)
  \/ \E t \in Tasks : update(t)
  \/ tick
  \/ \E id \in DOMAIN timers : dwellTimerFired(id)
  \/ \E t \in Tasks : onAutoVisitSaved(t)
  \/ \E l \in Locations : onMarkVisited(l)
  \/ \E t \in Tasks : onMarkVisitedSaved(t)
  \/ finishRun
  \/ \E t \in Tasks : finishRunLocated(t)
  \/ \E t \in Tasks : finishRunVisitSaved(t)
  \/ \E t \in Tasks : finishRunCompleted(t)
  \/ \E t \in Tasks : finishRunCleared(t)

SpecAutoFinish == InitAuto /\ [][NextAutoFinish]_vars

\* Calls of the mark handlers one after the other during the attempt at run
\* r1: args keeps the calls in the order of their issue, each with the
\* handler's name, its stop, and whether every earlier handler had completed
\* when it was issued.
Called(fn, locationId) ==
  /\ Len(args.calls) < MaxCalls
  /\ args' = [args EXCEPT !.calls = Append(@, [fn |-> fn, locationId |-> locationId,
                                                idle |-> Idle])]
  /\ UNCHANGED result

markVisitedCalled(locationId) ==
  /\ MarkVisitedIssued(locationId)
  /\ Called("onMarkVisited", locationId)

markUnvisitedCalled(locationId) ==
  /\ MarkUnvisitedIssued(locationId)
  /\ Called("onMarkUnvisited", locationId)

InitToggle ==
  /\ RunStarted("r1", FALSE)
  /\ permission = "granted"
  /\ runLocations = Links("r1", {"A", "B"})
  /\ args = [fn |-> "calls", calls |-> <<>>]
  /\ result = {}

NextToggle ==
  \/ \E l \in Locations : markVisitedCalled(l)
  \/ \E t \in Tasks : onMarkVisitedSaved(t)
  \/ \E l \in Locations : markUnvisitedCalled(l)
  \/ \E t \in Tasks : onMarkUnvisitedDeleted(t)

SpecToggle == InitToggle /\ [][NextToggle]_vars

\* Disruption mode during the attempt at run r1 with the stops A and B and
\* auto check-in enabled: the panel is opened and closed, stops are marked and
\* unmarked by hand, and fixes near A arrive.
NextDisruption ==
  \/ enterDisruption
  \/ \E t \in Tasks : enterDisruptionLocated(t)
  \/ exitDisruption
  \/ \E l \in Locations : onMarkVisited(l)
  \/ \E t \in Tasks : onMarkVisitedSaved(t)
  \/ \E t \in Tasks : onMarkVisitedLocated(t)
  \/ \E l \in Locations : onMarkUnvisited(l)
  \/ \E t \in Tasks : onMarkUnvisitedDeleted(t)
  \/ \E t \in Tasks : onMarkUnvisitedLocated(t)
  \/ \E f \in NearA : positionFix(f)
  \/ \E t \in Tasks : update(t)
  \/ tick
  \/ \E id \in DOMAIN timers : dwellTimerFired(id)
  \/ \E t \in Tasks : onAutoVisitSaved(t)

SpecDisruption == InitAuto /\ [][NextDisruption]_vars

\* A backup is imported on the device without a run in progress, and the app
\* is restarted: the start-up check meets the imported record.
NextImport ==
  \/ \E record \in BackupRecords : importData(record)
  \/ restart
  \/ checkForActiveSession
  \/ resumeSession
  \/ discardSession
  \/ \E t \in Tasks : onModeChangeResumed(t)

SpecImport == Init /\ [][NextImport]_vars

\* The attempt at run r1 with auto check-in enabled on a device whose
\* geolocation permission is granted or denied: fixes or errors arrive, the
\* watch is stopped and started again by the changes of mode, and the app is
\* restarted and the session resumed.
InitSensor ==
  /\ RunStarted("r1", TRUE)
  /\ runLocations = Links("r1", {"A", "B"}) \cup Links("r2", {"C"})
  /\ permission \in {"granted", "denied"}
  /\ args = NoCall
  /\ result = {}

NextSensor ==
  \/ \E f \in SlowFixes : positionFix(f)
  \/ \E code \in {1, 2, 3} : geolocationError(code)
  \/ \E t \in Tasks : update(t)
  \/ tick
  \/ \E id \in DOMAIN timers : dwellTimerFired(id)
  \/ \E t \in Tasks : onAutoVisitSaved(t)
  \/ \E m \in Modes : onModeChange(m)
  \/ \E t \in Tasks : onModeChangeResumed(t)
  \/ restart
  \/ checkForActiveSession
  \/ resumeSession
  \/ discardSession

SpecSensor == InitSensor /\ [][NextSensor]_vars

\* ------------------------------------------------- calls of pure functions
\* the variables of the app
stateVars == <<appVars, settingsEnabled, ctlVars, dbVars, inflight, prompt, booting, now,
               disVars, gpsVars>>

\* the lists of at most n locations with the ids of allLocations, each at any
\* azimuth and distance from the centre
LocationLists(n) ==
  UNION {[1..k -> [az : Azimuths, km : Distances]] : k \in 0..n}

WithIds(sites) ==
  [i \in DOMAIN sites |-> [id |-> allLocations[i], az |-> sites[i].az, km |-> sites[i].km]]

\* the calls getNearestByCardinal(centre, locations, visitedIds)
CardinalCalls ==
  {[fn |-> "getNearestByCardinal", locations |-> WithIds(sites), visitedIds |-> v] :
     sites \in LocationLists(MaxCandidates), v \in SUBSET SeqToSet(allLocations)}

InitCardinal ==
  /\ AppStarted
  /\ permission = "granted"
  /\ args \in CardinalCalls
  /\ result = {}

\* the call returns
getNearestByCardinalReturns ==
  /\ args.fn = "getNearestByCardinal"
  /\ result = {}
  /\ result' = {getNearestByCardinal(args.locations, args.visitedIds)}
  /\ UNCHANGED <<stateVars, args>>

NextCardinal == getNearestByCardinalReturns

SpecCardinal == InitCardinal /\ [][NextCardinal]_vars


\* run ids, location ids and start times given to makeVisitId; an id may
\* itself hold the separator
RunIds == {"r1", "r2", "r1-A"}
LocationIds == {"A", "B", "1", "A-1"}
StartTimes == {1, 11, 2}

\* the sessions given to makeVisitId: new ones and ones with a visited stop
SessionsGiven ==
  {[createRunSession(r, t) EXCEPT !.visitedLocationIds = v] :
     r \in RunIds, t \in StartTimes, v \in {{}, {"A"}}}

\* two calls makeVisitId(session, locationId)
VisitIdCalls ==
  {[fn |-> "makeVisitId", first |-> [session |-> s1, locationId |-> l1],
    second |-> [session |-> s2, locationId |-> l2]] :
     s1 \in SessionsGiven, l1 \in LocationIds, s2 \in SessionsGiven, l2 \in LocationIds}

InitVisitId ==
  /\ AppStarted
  /\ permission = "granted"
  /\ args \in VisitIdCalls
  /\ result = {}

\* the two calls return
makeVisitIdReturns ==
  /\ args.fn = "makeVisitId"
  /\ result = {}
  /\ result' = {<<makeVisitId(args.first.session, args.first.locationId),
                  makeVisitId(args.second.session, args.second.locationId)>>}
  /\ UNCHANGED <<stateVars, args>>

NextVisitId == makeVisitIdReturns

SpecVisitId == InitVisitId /\ [][NextVisitId]_vars


\* the visit ids given to markVisited: none (null), the empty string, and ids
VisitIdsGiven == {NoVisitId, "", "visit-r1-A-1", "visit-r1-B-1"}

\* the sessions given to markVisited: any stops of A and B visited, each with
\* or without a stored visit id
MarkSessionsGiven ==
  {[createRunSession("r1", 1) EXCEPT !.visitedLocationIds = v, !.visitIdsByLocation = m] :
     <<v, m>> \in {<<v, m>> \in
                     (SUBSET {"A", "B"}) \X
                       UNION {[d -> {"visit-r1-A-1", "visit-r1-B-1"}] : d \in SUBSET {"A", "B"}} :
                     DOMAIN m \subseteq v}}

\* a call markVisited(session, locationId, visitId)
MarkCalls ==
  {[fn |-> "markVisited", session |-> s, locationId |-> l, visitId |-> v] :
     s \in MarkSessionsGiven, l \in Locations, v \in VisitIdsGiven}

InitMarkCall ==
  /\ AppStarted
  /\ permission = "granted"
  /\ args \in MarkCalls
  /\ result = {}

\* the call returns: result holds the session as the call left it
markVisitedReturns ==
  /\ args.fn = "markVisited"
  /\ result = {}
  /\ result' = {markVisited(args.session, args.locationId, args.visitId)}
  /\ UNCHANGED <<stateVars, args>>

NextMarkCall == markVisitedReturns

SpecMarkCall == InitMarkCall /\ [][NextMarkCall]_vars


\* Sequences of markVisited and markUnvisited on a session made by
\* createRunSession: args keeps the operations applied so far, result holds
\* the session as they left it.
InitSessionOps ==
  /\ AppStarted
  /\ permission = "granted"
  /\ \E runId \in runs, t \in 1..2 :
       /\ args = [fn |-> "session", ops |-> <<>>]
       /\ result = {createRunSession(runId, t)}

markVisitedApplied(locationId, visitId) ==
  /\ args.fn = "session"
  /\ Len(args.ops) < MaxCalls
  /\ args' = [args EXCEPT !.ops = Append(@, [fn |-> "markVisited",
                                             locationId |-> locationId,
                                             visitId |-> visitId])]
  /\ result' = {markVisited(session, locationId, visitId) : session \in result}
  /\ UNCHANGED stateVars

markUnvisitedApplied(locationId) ==
  /\ args.fn = "session"
  /\ Len(args.ops) < MaxCalls
  /\ args' = [args EXCEPT !.ops = Append(@, [fn |-> "markUnvisited",
                                             locationId |-> locationId,
                                             visitId |-> NoVisitId])]
  /\ result' = {markUnvisited(session, locationId) : session \in result}
  /\ UNCHANGED stateVars

NextSessionOps ==
  \/ \E l \in Locations, v \in VisitIdsGiven : markVisitedApplied(l, v)
  \/ \E l \in Locations : markUnvisitedApplied(l)

SpecSessionOps == InitSessionOps /\ [][NextSessionOps]_vars


\* the instants of the duration calls, in milliseconds
Instants == {0, 29999, 30000, 60000, 89999, 90000, 200000}

\* the startedAt of the stored record: the date string saveActiveSession
\* wrote, a number, a string that is no date, or nothing
StartedAtGiven ==
  {toISOString(ms) : ms \in Instants}
    \cup {[kind |-> "number", ms |-> ms] : ms \in Instants}
    \cup {[kind |-> "text", ms |-> 0], [kind |-> "undefined", ms |-> 0]}

\* a session is rebuilt from the record at loadedAt and finished at finishedAt
DurationCalls ==
  {[fn |-> "finishRun", startedAt |-> st, loadedAt |-> t0, finishedAt |-> t1] :
     st \in StartedAtGiven,
     <<t0, t1>> \in {<<t0, t1>> \in Instants \X Instants : t0 <= t1}}

InitDuration ==
  /\ AppStarted
  /\ permission = "granted"
  /\ args \in DurationCalls
  /\ result = {}

\* finishRun computes durationMinutes for the resumed session and
\* addRunCompletion stores it
durationMinutesReturns ==
  /\ args.fn = "finishRun"
  /\ result = {}
  /\ result' = {durationMinutes(startedAtValue(args.startedAt, args.loadedAt),
                                 args.finishedAt)}
  /\ UNCHANGED <<stateVars, args>>

NextDuration == durationMinutesReturns

SpecDuration == InitDuration /\ [][NextDuration]_vars


\* the states of a controller: idle, or dwelling on a stop with one timer
\* that has any part of the dwell time left
ControllersGiven ==
  {Controller(NULL, 0, <<>>)}
    \cup {Controller(l, id, [k \in {id} |-> left]) :
            l \in Locations, id \in {1, 2}, left \in 0..DwellTicks}

\* a call cancelForLocation(locationId) or cancelAll() in a state of the controller
CancelCalls ==
  {[fn |-> "cancelForLocation", c |-> c, locationId |-> l] :
     c \in ControllersGiven, l \in Locations}
    \cup {[fn |-> "cancelAll", c |-> c, locationId |-> NULL] : c \in ControllersGiven}

InitCancelCall ==
  /\ AppStarted
  /\ permission = "granted"
  /\ args \in CancelCalls
  /\ result = {}

\* the calls return: result holds the controller as the call left it
cancelForLocationReturns ==
  /\ args.fn = "cancelForLocation"
  /\ result = {}
  /\ result' = {cancelForLocation(args.c, args.locationId)}
  /\ UNCHANGED <<stateVars, args>>

cancelAllReturns ==
  /\ args.fn = "cancelAll"
  /\ result = {}
  /\ result' = {cancelAll(args.c)}
  /\ UNCHANGED <<stateVars, args>>

NextCancelCall ==
  \/ cancelForLocationReturns
  \/ cancelAllReturns

SpecCancelCall == InitCancelCall /\ [][NextCancelCall]_vars


\* the calls of the settings functions: a read of the store that holds no
\* document or any one document, and a save of any settings object
SettingsCalls ==
  {[fn |-> "getAutoCheckInSettings", stored |-> st] :
     st \in {{}} \cup {{d} : d \in SettingsGiven}}
    \cup {[fn |-> "saveAutoCheckInSettings", settings |-> st] : st \in SettingsGiven}

InitSettingsCall ==
  /\ AppStarted
  /\ permission = "granted"
  /\ args \in SettingsCalls
  /\ result = {}

getAutoCheckInSettingsReturns ==
  /\ args.fn = "getAutoCheckInSettings"
  /\ result = {}
  /\ result' = {getAutoCheckInSettings(args.stored)}
  /\ UNCHANGED <<stateVars, args>>

saveAutoCheckInSettingsReturns ==
  /\ args.fn = "saveAutoCheckInSettings"
  /\ result = {}
  /\ result' = {AutoCheckInDoc(args.settings)}
  /\ UNCHANGED <<stateVars, args>>

NextSettingsCall ==
  \/ getAutoCheckInSettingsReturns
  \/ saveAutoCheckInSettingsReturns

SpecSettingsCall == InitSettingsCall /\ [][NextSettingsCall]_vars


\* ---------------------------------------------------------------- properties
\* the ledger entries of a stop in a run
VisitsIn(store, runId, locationId) ==
  {k \in DOMAIN store : store[k].runId = runId /\ store[k].locationId = locationId}

\* the ledger entries of a run
VisitsOfRun(runId) == {k \in DOMAIN visits : visits[k].runId = runId}

\* the record in the active-session slot, NoSession's record when it is empty
StoredRecord ==
  IF loadActiveSession(activeSessions) = {}
    THEN ActiveSessionRecord(NoSession, 0)
    ELSE CHOOSE d \in loadActiveSession(activeSessions) : TRUE

\* the step is one of the two steps of a manual mark of stop l
ManualMarkStep(l) ==
  \/ onMarkVisited(l)
  \/ \E t \in Tasks : t.loc = l /\ onMarkVisitedSaved(t)

\* C1: idempotent marking.  When stop l is visited in the live session and
\* the ledger holds exactly one entry for l in this run (the state a first
\* mark leaves), neither step of a further manual mark of l changes the
\* visited set, the stop's visit id, or the keys of the ledger: l is in the
\* set once and the ledger still holds exactly one entry for l.
C1_IdempotentMarking ==
  [][\A l \in Locations :
       ( /\ runSession # 0
         /\ isVisited(Session, l)
         /\ Cardinality(VisitsIn(visits, Session.runId, l)) = 1
         /\ getVisitId(Session, l) \in DOMAIN visits
         /\ ManualMarkStep(l) )
       => /\ runSession' = runSession
          /\ heap'[runSession].visitedLocationIds = Session.visitedLocationIds
          /\ heap'[runSession].visitIdsByLocation = Session.visitIdsByLocation
          /\ DOMAIN visits' = DOMAIN visits
          /\ VisitsIn(visits', Session.runId, l) = {makeVisitId(Session, l)}
    ]_vars

\* a second manual mark of a visited stop is in flight
C1_Witness ==
  \E t \in Tasks :
    /\ t.h = "onMarkVisited"
    /\ runSession # 0
    /\ isVisited(Session, t.loc)
    /\ VisitsIn(visits, Session.runId, t.loc) = {getVisitId(Session, t.loc)}

\* a store without the entry of key k
Without(store, k) == [x \in DOMAIN store \ {k} |-> store[x]]

\* the manual mark of an unvisited stop l, invoked while no handler is in
\* flight, writes the ledger entry makeVisitId(session, l) and nothing else
\* in the ledger
MarkWritesEntry(l) ==
  (Idle /\ runSession # 0 /\ ~isVisited(Session, l) /\ onMarkVisited(l))
    => /\ makeVisitId(Session, l) \in DOMAIN visits'
       /\ Without(visits', makeVisitId(Session, l)) = Without(visits, makeVisitId(Session, l))
       /\ heap' = heap

\* its continuation, alone in flight, adds l and l's visit id to the session
MarkAddsStop(l) ==
  \A t \in Tasks :
    ( /\ inflight = SetToBag({t}) /\ t.loc = l
      /\ runSession # 0 /\ ~isVisited(Session, l)
      /\ onMarkVisitedSaved(t) )
    => /\ heap'[runSession].visitedLocationIds = Session.visitedLocationIds \cup {l}
       /\ getVisitId(heap'[runSession], l) = t.vid
       /\ \A m \in Locations \ {l} :
            getVisitId(heap'[runSession], m) = getVisitId(Session, m)
       /\ visits' = visits

\* the undo of a visited stop l, invoked while no handler is in flight, takes
\* l and its visit id out of the session and the entry of that id out of the
\* ledger, and nothing else
UndoRemoves(l) ==
  (Idle /\ runSession # 0 /\ isVisited(Session, l) /\ onMarkUnvisited(l))
    => /\ ~isVisited(heap'[runSession], l)
       /\ heap'[runSession].visitedLocationIds = Session.visitedLocationIds \ {l}
       /\ getVisitId(heap'[runSession], l) = NoVisitId
       /\ \A m \in Locations \ {l} :
            getVisitId(heap'[runSession], m) = getVisitId(Session, m)
       /\ getVisitId(Session, l) \notin DOMAIN visits'
       /\ visits' = Without(visits, getVisitId(Session, l))

\* C2 as stated: undo reversibility for any live session and any stop that is
\* not visited.  The mark creates a ledger entry (none of that id was there),
\* its continuation adds the stop, and the undo removes exactly the stop, its
\* visit id and that entry, so that the visited set and the ledger are again
\* what they were before the mark.
C2_UndoRestoresAnySession ==
  [][\A l \in Locations :
       /\ (Idle /\ runSession # 0 /\ ~isVisited(Session, l) /\ onMarkVisited(l))
            => makeVisitId(Session, l) \notin DOMAIN visits
       /\ MarkWritesEntry(l)
       /\ MarkAddsStop(l)
       /\ UndoRemoves(l)
    ]_vars

\* C2 amended: undo reversibility for a stop that is not visited and has no
\* ledger entry under its visit id.  The mark then adds exactly that entry,
\* its continuation adds the stop and its visit id, and the undo removes
\* exactly the stop, its visit id and the entry: the visited set and the
\* ledger are again what they were before the mark.
C2_UndoReversibility ==
  [][\A l \in Locations :
       /\ ( /\ Idle /\ runSession # 0 /\ ~isVisited(Session, l)
            /\ makeVisitId(Session, l) \notin DOMAIN visits
            /\ onMarkVisited(l) )
            => /\ DOMAIN visits' = DOMAIN visits \cup {makeVisitId(Session, l)}
               /\ Without(visits', makeVisitId(Session, l)) = visits
       /\ MarkWritesEntry(l)
       /\ MarkAddsStop(l)
       /\ UndoRemoves(l)
    ]_vars

\* the undo of a marked stop has run: the stop is not visited, has no visit
\* id, and the ledger holds no entry for it
C2_Witness ==
  \E t \in Tasks :
    /\ t.h = "onMarkUnvisited"
    /\ inflight = SetToBag({t})
    /\ runSession # 0
    /\ ~isVisited(Session, t.loc)
    /\ getVisitId(Session, t.loc) = NoVisitId
    /\ VisitsIn(visits, Session.runId, t.loc) = {}

\* the session that save, load and sessionFromStorage at time t make of s
RoundTrip(s, t) ==
  {sessionFromStorage(d, t) :
     d \in loadActiveSession(saveActiveSession(activeSessions, s, now))}

\* C3: resume round-trip.  For every run session of the program (each live
\* session, and the session a resume prompt offers), saveActiveSession, then
\* loadActiveSession and sessionFromStorage, at the time of saving or later,
\* give back a session with the same runId, the same visited set, the same
\* locationId-to-visitId mapping and the same startedAt; and the session
\* that start-up restored is the one whose record is in the slot.
C3_ResumeRoundTrip ==
  /\ \A s \in {heap[k] : k \in DOMAIN heap} \cup ({prompt} \ {NoSession}) :
       \A t \in {now, now + 1} :
         /\ RoundTrip(s, t) # {}
         /\ \A r \in RoundTrip(s, t) :
              /\ r.runId = s.runId
              /\ r.visitedLocationIds = s.visitedLocationIds
              /\ r.visitIdsByLocation = s.visitIdsByLocation
              /\ r.startedAt = s.startedAt
  /\ prompt # NoSession =>
       /\ loadActiveSession(activeSessions) # {}
       /\ ActiveSessionRecord(prompt, StoredRecord.lastUpdatedAt) = StoredRecord

\* start-up has restored a session with two visited stops and their visit ids
C3_Witness ==
  /\ prompt # NoSession
  /\ Cardinality(prompt.visitedLocationIds) = 2
  /\ DOMAIN prompt.visitIdsByLocation = prompt.visitedLocationIds
  /\ \A l \in prompt.visitedLocationIds :
       prompt.visitIdsByLocation[l] = makeVisitId(prompt, l)

\* C4: resuming never loses visited progress.  The Resume step, taken when
\* the stored record's run exists, leaves a live session with the record's
\* runId and with exactly the record's visited stops, in Operation mode with
\* that run selected.  The record covers the progress: at a restart every
\* stop visited in the live session is in the record, and start-up leaves
\* the record as it is when it opens the prompt.
C4_ResumeKeepsProgress ==
  [][/\ resumeSession =>
          /\ loadActiveSession(activeSessions) # {}
          /\ StoredRecord.runId \in Runs
          /\ runSession' # 0
          /\ heap'[runSession'].runId = StoredRecord.runId
          /\ heap'[runSession'].visitedLocationIds =
               SeqToSet(StoredRecord.visitedLocationIds.items)
          /\ mode' = "operation"
          /\ selectedRunId' = StoredRecord.runId
     /\ (restart /\ runSession # 0) =>
          /\ loadActiveSession(activeSessions) # {}
          /\ Session.visitedLocationIds \subseteq SeqToSet(StoredRecord.visitedLocationIds.items)
     /\ (checkForActiveSession /\ prompt' # NoSession) =>
          activeSessions' = activeSessions
    ]_vars

\* Resume has been chosen for a record with visited stops: the run is live in
\* Operation mode with those stops visited
C4_Witness ==
  /\ mode = "operation"
  /\ selectedRunId = "r1"
  /\ runSession # 0
  /\ Cardinality(Session.visitedLocationIds) = 2
  /\ \E t \in Tasks : t.h = "onModeChange"

\* the completion records that the step adds to the runCompletions store
Written ==
  {c \in BagToSet(runCompletions') :
     CopiesIn(c, runCompletions') > CopiesIn(c, runCompletions)}

\* the completion records of the attempt that started at startedAt
CompletionsOf(store, runId, startedAt) ==
  LET S == {c \in BagToSet(store) :
              c.runId = runId /\ c.completedAt - c.durationMinutes = startedAt}
  IN BagCardinality([c \in S |-> CopiesIn(c, store)])

\* a step writes at most one completion for the attempt
OneCompletion ==
  \A c \in Written :
    CompletionsOf(runCompletions', c.runId, c.completedAt - c.durationMinutes) <= 1

\* a completion is written with the counts of the session it ends
CompletionCounts ==
  \A c \in Written :
    \E t \in Tasks :
      /\ t.h = "finishRun" /\ t.sess # 0
      /\ c.visitedCount = Cardinality(heap[t.sess].visitedLocationIds)
      /\ c.totalCount = Cardinality(StopsOf(t.run))

\* the step after the completion is written ends the session and empties the slot
SessionEnded ==
  \A t \in Tasks :
    finishRunCompleted(t) =>
      /\ runSession' = 0
      /\ selectedRunId' = NULL
      /\ loadActiveSession(activeSessions') = {}

\* C5 as stated: finishRun is the single terminal transition of a run
\* attempt.  In every interleaving of the handlers an attempt yields at most
\* one RunCompletion, the completion carries visitedCount = the size of the
\* session's visited set and totalCount = the number of stops of the run,
\* afterwards there is no live session and the slot is empty, and nothing is
\* written without a live session.
C5_SingleTerminalTransition ==
  [][/\ OneCompletion
     /\ CompletionCounts
     /\ SessionEnded
     /\ (runSession = 0 /\ ~(\E t \in Tasks : t.h = "finishRun")) => Written = {}
    ]_vars

\* the stops of run runId that were marked and not unmarked: those with a
\* ledger entry
MarkedStops(runId) == {visits[k].locationId : k \in VisitsOfRun(runId)}

\* C6: the end-to-end resume scenario.  When the operations of an attempt
\* (marks, undos, a restart followed by Resume, further marks, finishRun) are
\* performed one after the other, the counts that finishRun takes and the
\* RunCompletion it writes have visitedCount = the number of distinct stops
\* marked before or after the restart and not unmarked, and totalCount = the
\* number of stops of the run; at most one completion is written, and once
\* finishRun is over there is no live session and the slot is empty.
C6_ResumeScenario ==
  /\ \A t \in Tasks :
       (t.h = "finishRun" /\ t.pc >= 2) =>
         /\ t.vc = Cardinality(MarkedStops(t.run))
         /\ t.tc = Cardinality(StopsOf(t.run))
  /\ \A c \in BagToSet(runCompletions) :
       /\ c.visitedCount = Cardinality(MarkedStops(c.runId))
       /\ c.totalCount = Cardinality(StopsOf(c.runId))
  /\ BagCardinality(runCompletions) <= 1
  /\ (runCompletions # EmptyBag /\ Idle) =>
       /\ runSession = 0
       /\ loadActiveSession(activeSessions) = {}

\* the run with the three stops was finished, after a restart, with A and B
\* marked: the completion has visitedCount 2 and totalCount 3, and the slot
\* is empty
C6_Witness ==
  /\ Idle
  /\ MarkedStops("r1") = {"A", "B"}
  /\ \E c \in BagToSet(runCompletions) :
       /\ c.runId = "r1" /\ c.visitedCount = 2 /\ c.totalCount = 3
       /\ c.durationMinutes > 0
  /\ runSession = 0
  /\ loadActiveSession(activeSessions) = {}

\* the onAutoVisit handlers that the step starts
AutoVisitsStarted ==
  {t \in BagToSet(inflight') :
     t.h = "onAutoVisit" /\ CopiesIn(t, inflight') > CopiesIn(t, inflight)}

\* the step writes a ledger entry of method "auto"
AutoEntryWritten ==
  \E k \in DOMAIN visits' :
    /\ visits'[k].visitMethod = "auto"
    /\ (k \in DOMAIN visits => visits[k] # visits'[k])

\* the controller is idle after the step
IdleAfter == dwellingLocationId' = NULL /\ dwellTimerId' = 0 /\ timers' = <<>>

\* the controller is as before the step
KeptAfter ==
  dwellingLocationId' = dwellingLocationId /\ dwellTimerId' = dwellTimerId
    /\ timers' = timers

\* after the step a dwell on stop l runs with a timer of the full dwell time
ArmedAfter(l) ==
  /\ dwellingLocationId' = l
  /\ dwellTimerId' # 0
  /\ DOMAIN timers' = {dwellTimerId'}
  /\ timers'[dwellTimerId'] = DwellTicks

\* the unvisited stop that a fix makes update() dwell on, NULL when the fix is
\* rejected or no unvisited stop is within proximityMeters
Target(fix, locations, visitedIds) ==
  IF fix.accuracy > 100 \/ fix.speed * 36 > 50 THEN NULL
  ELSE Closest(fix.pos, SelectSeq(locations, LAMBDA l : l \notin visitedIds))

\* C7: a single in-range fix does not trigger a visit.  The two steps of
\* update() for a fix start no onAutoVisit handler and change neither the
\* session, the ledger nor the slot; they leave the controller as it is,
\* cancel the dwell, or arm a dwell.  An onAutoVisit handler is started, and
\* an "auto" entry written, only by the expiry of the controller's current
\* timer (the one armed last and not cancelled since), for the stop it was
\* armed for.
C7_FixNeverVisits ==
  [][/\ ((\E f \in Fixes : positionFix(f)) \/ (\E t \in Tasks : update(t)))
          => /\ AutoVisitsStarted = {}
             /\ visits' = visits /\ heap' = heap /\ activeSessions' = activeSessions
             /\ \/ KeptAfter
                \/ IdleAfter
                \/ \E l \in Locations : ArmedAfter(l)
     /\ (AutoVisitsStarted # {} \/ AutoEntryWritten)
          => /\ dwellTimerId # 0
             /\ dwellTimerId \in DOMAIN timers
             /\ timers[dwellTimerId] = 0
             /\ dwellingLocationId \in Locations
             /\ dwellTimerFired(dwellTimerId)
             /\ \A t \in AutoVisitsStarted : t.loc = dwellingLocationId
    ]_vars

\* one in-range fix has been processed: a dwell on A runs, and no stop is
\* visited, no visit recorded and no handler in flight
C7_Witness ==
  /\ dwellingLocationId = "A"
  /\ dwellTimerId # 0
  /\ visits = <<>>
  /\ Session.visitedLocationIds = {}
  /\ inflight = EmptyBag

\* C8: sustained proximity triggers a visit.  A qualifying fix for stop S
\* (accurate, low-speed, S the closest unvisited stop within proximityMeters)
\* arms a dwell on S when none runs for S; every later qualifying fix for S
\* leaves the timer as it is (neither cancelled nor restarted); and the
\* expiry of the timer starts exactly one onAutoVisit handler, for S, and
\* leaves the controller idle with no timer.
C8_SustainedProximity ==
  [][/\ \A t \in Tasks :
          (t.h = "update" /\ update(t)
             /\ Target(t.fix, t.locs, Session.visitedLocationIds) # NULL)
          => IF dwellingLocationId = Target(t.fix, t.locs, Session.visitedLocationIds)
               THEN KeptAfter
               ELSE ArmedAfter(Target(t.fix, t.locs, Session.visitedLocationIds))
     /\ \A id \in DOMAIN timers :
          dwellTimerFired(id)
          => /\ id = dwellTimerId
             /\ Cardinality(AutoVisitsStarted) = 1
             /\ BagCardinality(inflight') = BagCardinality(inflight) + 1
             /\ \A t \in AutoVisitsStarted : t.loc = dwellingLocationId
             /\ IdleAfter
    ]_vars

\* the dwell on A has expired after its full time: one onAutoVisit handler
\* for A is in flight and the controller is idle
C8_Witness ==
  /\ \E t \in Tasks : t.h = "onAutoVisit" /\ t.loc = "A" /\ inflight = SetToBag({t})
  /\ dwellingLocationId = NULL /\ dwellTimerId = 0 /\ timers = <<>>
  /\ \E k \in DOMAIN visits : visits[k].locationId = "A" /\ visits[k].visitMethod = "auto"

\* the fix reports more than 5 km/h (speed in m/s times 3.6)
OverFiveKmh(fix) == fix.speed * 36 > 50

\* the step is the step of update() that handles fix t.fix while a dwell is
\* pending and a stop of the run is unvisited
UpdateWhileDwelling(t) ==
  /\ t.h = "update" /\ update(t)
  /\ dwellingLocationId # NULL /\ dwellTimerId \in DOMAIN timers
  /\ SeqToSet(t.locs) \ Session.visitedLocationIds # {}

\* an accepted in-range low-speed fix arms a timer of the full dwell time,
\* whatever time a cancelled dwell had run
FreshDwell ==
  \A t \in Tasks :
    (t.h = "update" /\ update(t) /\ dwellingLocationId = NULL
       /\ Target(t.fix, t.locs, Session.visitedLocationIds) # NULL)
    => ArmedAfter(Target(t.fix, t.locs, Session.visitedLocationIds))

\* C9 as stated: motion cancels dwell.  While a dwell is pending, every fix
\* that reports more than 5 km/h leaves the controller idle with no timer
\* (the cancelled timer cannot fire), and a subsequent accepted in-range
\* low-speed fix arms a fresh timer of the full dwell time.
C9_MotionCancelsAnyFix ==
  [][/\ \A t \in Tasks :
          (UpdateWhileDwelling(t) /\ OverFiveKmh(t.fix)) => IdleAfter
     /\ FreshDwell
    ]_vars

\* C9 amended: while a dwell is pending, a fix that passes the accuracy gate
\* (accuracy not above max(proximityMeters, 100 m)) and reports more than
\* 5 km/h leaves the controller idle with no timer; a fix that fails the
\* accuracy gate leaves the dwell as it is, whatever its speed; and a
\* subsequent accepted in-range low-speed fix arms a fresh timer of the full
\* dwell time.
C9_MotionCancelsDwell ==
  [][/\ \A t \in Tasks :
          /\ (UpdateWhileDwelling(t) /\ OverFiveKmh(t.fix) /\ t.fix.accuracy <= 100)
               => IdleAfter
          /\ (UpdateWhileDwelling(t) /\ t.fix.accuracy > 100) => KeptAfter
     /\ FreshDwell
    ]_vars

\* a fix reporting more than 5 km/h is being handled while the dwell on A has
\* run for part of its time
C9_Witness ==
  /\ dwellingLocationId = "A"
  /\ dwellTimerId \in DOMAIN timers
  /\ timers[dwellTimerId] < DwellTicks
  /\ "A" \notin Session.visitedLocationIds
  /\ \E t \in Tasks : t.h = "update" /\ OverFiveKmh(t.fix) /\ t.fix.accuracy <= 100

\* a manual mark of stop l has been issued: the ledger holds its entry
ManuallyMarked(l) ==
  /\ runSession # 0
  /\ makeVisitId(Session, l) \in DOMAIN visits
  /\ visits[makeVisitId(Session, l)].visitMethod = "manual"

\* C10 as stated: manual mark versus auto check-in.  In every interleaving
\* of the manual mark's steps with the handling of position fixes, once the
\* manual mark of L has been issued no dwell for L is pending while L is in
\* the visited set, and no dwell timer expires for L (no auto-visit callback
\* for L).
C10_NoDwellAfterManualMark ==
  [][\A l \in Locations :
       ManuallyMarked(l) =>
         /\ isVisited(Session, l) => dwellingLocationId # l
         /\ \A id \in DOMAIN timers :
              dwellTimerFired(id) => dwellingLocationId # l
    ]_vars

\* the step changes the context of the dwell: a mode switch out of Operation,
\* a run selection, the start of finishRun, or Resume
ContextChange ==
  \/ \E m \in Modes \ {"operation"} : onModeChange(m)
  \/ \E r \in Runs \cup {NULL} : onRunSelect(r)
  \/ finishRun
  \/ resumeSession

\* the ledger entries of method "auto" that the step writes
AutoEntriesWritten ==
  {k \in DOMAIN visits' :
     /\ visits'[k].visitMethod = "auto"
     /\ (k \in DOMAIN visits => visits[k] # visits'[k])}

\* C11 as stated: no leaked dwell timer across a context change.  Every mode
\* switch out of Operation, run change, run finish and resume leaves the
\* controller idle with no timer in the same step, and every auto visit is
\* recorded against the run of the dwelled-on stop (the runs of the scenario
\* have no stop in common, so a dwell armed for a stop of one run is never
\* recorded against the other run, also when its update() was in flight at
\* the time of the change).
C11_NoLeakedDwell ==
  [][/\ ContextChange => IdleAfter
     /\ \A k \in AutoEntriesWritten :
          visits'[k].locationId \in StopsOf(visits'[k].runId)
    ]_vars

\* an auto visit of stop A, a stop of run r1 only, is recorded against run r2
C11_WrongRunVisit ==
  \E k \in DOMAIN visits :
    /\ visits[k].visitMethod = "auto"
    /\ visits[k].locationId = "A"
    /\ visits[k].runId = "r2"

\* the step is the one in which a save of the setting as disabled takes
\* effect: the setting in use becomes disabled
DisablingStep ==
  \E t \in Tasks : t.h = "onSave" /\ ~t.enabled /\ onSaveSettingsSaved(t)

\* C12 as stated: disabling cancels.  The step that changes the setting in
\* use to disabled leaves the controller idle with no timer, and while the
\* setting in use is disabled no step starts an onAutoVisit handler or
\* writes an "auto" ledger entry.
C12_DisablingCancels ==
  [][/\ DisablingStep => IdleAfter
     /\ ~settingsEnabled => (AutoVisitsStarted = {} /\ AutoEntriesWritten = {})
    ]_vars

\* the bearing of a location from the centre, in tenths of a degree in [0, 3600)
TrueBearing(loc) == (loc.az + 3600) % 3600

\* the half-open ranges of the four directions, in tenths of a degree
InRange(b, card) ==
  CASE card = "N" -> b >= 3375 \/ b < 225
    [] card = "E" -> b >= 225 /\ b < 1125
    [] card = "S" -> b >= 1125 /\ b < 2025
    [] card = "W" -> b >= 2025 /\ b < 3375

\* the locations of the call
Given == SeqToSet(args.locations)

\* the unvisited candidates of the call whose bearing lies in the range of card
Qualifying(card) ==
  {loc \in Given : loc.id \notin args.visitedIds /\ InRange(TrueBearing(loc), card)}

\* C13: cardinal suggestion result.  For every list of candidates and every
\* visited set, getNearestByCardinal returns for each of N, E, S, W an
\* unvisited candidate whose bearing lies in that direction's range and
\* that no other such candidate beats in distance, and null exactly when
\* there is no such candidate; a stop of the visited set is never returned.
C13_CardinalResult ==
  \A r \in result : \A card \in Cardinals :
    /\ (r[card] = NoSuggestion) <=> (Qualifying(card) = {})
    /\ r[card] # NoSuggestion =>
         /\ r[card].id \notin args.visitedIds
         /\ \E loc \in Qualifying(card) :
              /\ r[card] = loc
              /\ \A other \in Qualifying(card) : loc.km <= other.km

\* the call has returned, for N, the farther of two candidates to the north
\* because the nearer one is visited, and null for another direction
C13_Witness ==
  \E r \in result : \E near, far \in Given :
    /\ InRange(TrueBearing(near), "N") /\ InRange(TrueBearing(far), "N")
    /\ near.km < far.km
    /\ near.id \in args.visitedIds /\ far.id \notin args.visitedIds
    /\ r["N"] = far
    /\ r["S"] = NoSuggestion

\* bearings over the whole circle: every 2.5 degrees and the tenths next to
\* the four boundaries
Bearings ==
  {25 * k : k \in 0..143}
    \cup {224, 226, 1124, 1126, 2024, 2026, 3374, 3376, 3599, 1, 100, 950, 1700, 2600}

\* the directions whose range holds bearing b
DirectionsOf(b) == {card \in Cardinals : bearingInCardinal(b, card)}

\* C14: the cardinal ranges are half-open and partition [0,360).  Every
\* bearing is in the range of exactly one direction, the one the ranges
\* N [337.5,22.5), E [22.5,112.5), S [112.5,202.5), W [202.5,337.5) give;
\* bearings 10, 95, 170 and 260 are N, E, S and W; 22.5 is E and not N;
\* and in every result each returned stop lies in the range of the
\* direction it is returned for and no stop is returned for two directions.
C14_CardinalPartition ==
  /\ \A b \in Bearings :
       /\ Cardinality(DirectionsOf(b)) = 1
       /\ \A card \in Cardinals : bearingInCardinal(b, card) <=> InRange(b, card)
  /\ DirectionsOf(100) = {"N"} /\ DirectionsOf(950) = {"E"}
  /\ DirectionsOf(1700) = {"S"} /\ DirectionsOf(2600) = {"W"}
  /\ DirectionsOf(225) = {"E"}
  /\ \A loc \in Given : Cardinality(DirectionsOf(bearing(loc))) = 1
  /\ \A r \in result : \A card \in Cardinals :
       r[card] # NoSuggestion =>
         /\ DirectionsOf(bearing(r[card])) = {card}
         /\ \A other \in Cardinals \ {card} : r[other].id # r[card].id

\* the call has returned a stop at exactly 22.5 degrees for E, and nothing
\* for N
C14_Witness ==
  \E r \in result :
    /\ r["E"] # NoSuggestion /\ bearing(r["E"]) = 225
    /\ r["N"] = NoSuggestion
    /\ Cardinality(Given) = 2

\* the (runId, locationId, startedAt) of a call of makeVisitId
Triple(call) == <<call.session.runId, call.locationId, call.session.startedAt>>

\* C15: deterministic visit id.  The id depends on (runId, locationId,
\* startedAt) only: two calls with the same three values return the same
\* id, whatever else the sessions hold; with the same run and stop a
\* different startedAt gives a different id; and within one session (same
\* runId and startedAt) two different location ids give different ids.
C15_DeterministicVisitId ==
  \A r \in result :
    LET a == args.first
        b == args.second
    IN /\ Triple(a) = Triple(b) => r[1] = r[2]
       /\ ( /\ a.session.runId = b.session.runId /\ a.locationId = b.locationId
            /\ a.session.startedAt # b.session.startedAt ) => r[1] # r[2]
       /\ ( /\ a.session.runId = b.session.runId
            /\ a.session.startedAt = b.session.startedAt
            /\ a.locationId # b.locationId ) => r[1] # r[2]
       /\ Triple(a) = <<"r1", "A", 1>> => r[1] = "visit-r1-A-1"

\* two calls for the same run and stop have returned: the sessions differ in
\* their visited stops and in startedAt, and so do the ids
C15_Witness ==
  \E r \in result :
    /\ args.first.session.runId = args.second.session.runId
    /\ args.first.locationId = args.second.locationId
    /\ args.first.session.startedAt = 1 /\ args.second.session.startedAt = 11
    /\ args.first.session.visitedLocationIds # args.second.session.visitedLocationIds
    /\ r[1] # r[2]

\* the session that start-up makes of the stored record at time t
Restored(t) == sessionFromStorage(StoredRecord, t)

\* C16: visit ids are stable across a restart.  When the app is restarted
\* with a live session, the session that start-up rebuilds from the slot
\* gives every stop the id the live session gave it, and Resume adopts that
\* session; so a manual mark of a stop that has a ledger entry in this run
\* attempt, before or after a restart, overwrites that entry, and the
\* ledger never holds more than one entry for a stop in the attempt.
C16_StableVisitIds ==
  [][/\ (restart /\ runSession # 0) =>
          \A t \in {now', now' + 1} : \A l \in Locations :
            makeVisitId(Restored(t), l) = makeVisitId(Session, l)
     /\ resumeSession =>
          /\ heap'[runSession'] = Restored(now)
          /\ \A l \in Locations :
               makeVisitId(heap'[runSession'], l) = makeVisitId(Restored(now), l)
     /\ \A l \in Locations :
          (runSession # 0 /\ VisitsIn(visits, Session.runId, l) # {} /\ onMarkVisited(l))
            => /\ DOMAIN visits' = DOMAIN visits
               /\ VisitsIn(visits', Session.runId, l) = {makeVisitId(Session, l)}
     /\ \A l \in Locations : Cardinality(VisitsIn(visits', "r1", l)) <= 1
    ]_vars

\* a stop that was marked before the restart (the record saved at time 1
\* holds it) is re-marked after Resume at time 2: its one ledger entry has
\* been overwritten
C16_Witness ==
  \E t \in Tasks :
    /\ t.h = "onMarkVisited"
    /\ runSession # 0 /\ now = 2
    /\ StoredRecord.lastUpdatedAt = 1
    /\ t.loc \in SeqToSet(StoredRecord.visitedLocationIds.items)
    /\ t.vid = "visit-r1-" \o t.loc \o "-1"
    /\ VisitsIn(visits, "r1", t.loc) = {t.vid}
    /\ visits[t.vid].visitedAt = 2

\* the slot holds a record whose run is not in the runs store
StaleRecord ==
  /\ loadActiveSession(activeSessions) # {}
  /\ StoredRecord.runId # NULL
  /\ StoredRecord.runId \notin runs

\* C17: stale run on resume.  When the start-up check finds a record whose
\* runId is not in the runs store, it deletes the record, opens no resume
\* prompt, creates no RunSession and leaves the app out of Operation mode;
\* start-up is over and the app accepts the user's gestures.  A prompt is
\* opened only for a record whose run exists.
C17_StaleRunOnResume ==
  [][/\ (checkForActiveSession /\ StaleRecord) =>
          /\ loadActiveSession(activeSessions') = {}
          /\ prompt' = NoSession
          /\ runSession' = 0 /\ heap' = heap /\ selectedRunId' = NULL
          /\ mode' # "operation"
          /\ ~booting'
          /\ visits' = visits
     /\ (checkForActiveSession /\ prompt' # NoSession) => prompt'.runId \in runs
    ]_vars

\* start-up has found the record of the deleted run r1 and removed it: the
\* slot is empty, no prompt is open and no session is live
C17_Witness ==
  /\ ~booting /\ now > 1
  /\ "r1" \notin runs
  /\ loadActiveSession(activeSessions) = {}
  /\ prompt = NoSession /\ runSession = 0 /\ mode = "dashboard"
  /\ VisitsOfRun("r1") # {}
  /\ runCompletions = EmptyBag

\* the fields of a record of the activeSessions store
RecordFields ==
  {"id", "runId", "visitedLocationIds", "visitIdsByLocation", "startedAt", "lastUpdatedAt"}

\* C18: Start New discards atomically.  The Start New step empties the
\* activeSessions store in one delete (loadActiveSession then returns
\* nothing), creates no RunSession, selects no run and leaves the ledger
\* alone; and in every state the store holds at most the one slot, which is
\* either empty or holds a whole record.
C18_StartNewDiscards ==
  [][/\ discardSession =>
          /\ activeSessions' = <<>>
          /\ loadActiveSession(activeSessions') = {}
          /\ runSession' = 0 /\ heap' = heap /\ selectedRunId' = NULL
          /\ prompt' = NoSession
          /\ visits' = visits
     /\ DOMAIN activeSessions' \subseteq {"current"}
     /\ \A d \in loadActiveSession(activeSessions') : DOMAIN d = RecordFields
    ]_vars

\* Start New was chosen for an attempt with visited stops: the slot is
\* empty, no session is live, and the ledger still has the visits
C18_Witness ==
  /\ ~booting /\ now > 1
  /\ prompt = NoSession /\ runSession = 0 /\ selectedRunId = NULL
  /\ activeSessions = <<>>
  /\ Cardinality(VisitsOfRun("r1")) = 2

\* no handler is in flight, start-up is over and no prompt is open
Quiet == Idle /\ UIReady

\* the slot holds the record of session s: the session rebuilt from it has
\* the runId, the visited set, the visit-id mapping and the startedAt of s
Mirrors(s) ==
  /\ loadActiveSession(activeSessions) # {}
  /\ Restored(now).runId = s.runId
  /\ Restored(now).visitedLocationIds = s.visitedLocationIds
  /\ Restored(now).visitIdsByLocation = s.visitIdsByLocation
  /\ Restored(now).startedAt = s.startedAt

FinishLoopStep ==
  \E t \in Tasks : finishRunLocated(t) \/ finishRunVisitSaved(t)

\* C20 as stated: the safety net of finishRun.  A turn of finishRun's loop
\* leaves every ledger entry that exists as it is (same visitedAt, same
\* visitMethod: an auto visit stays auto), and an entry it adds is the
\* entry of a visited stop of the session, of method "manual" and with the
\* present time.
C20_FinishRunSafetyNet ==
  [][FinishLoopStep =>
       /\ \A k \in DOMAIN visits : k \in DOMAIN visits' /\ visits'[k] = visits[k]
       /\ \A k \in DOMAIN visits' \ DOMAIN visits :
            /\ visits'[k].visitMethod = "manual"
            /\ visits'[k].visitedAt = now
            /\ \E t \in Tasks :
                 t.h = "finishRun" /\ visits'[k].locationId \in heap[t.sess].visitedLocationIds
    ]_vars

\* the ledger entries that the step removes
Removed == DOMAIN visits \ DOMAIN visits'

\* C21: recorded visits are never lost.  A step that removes a ledger entry
\* is a mark-unvisited of the entry's stop, made in the session that recorded
\* the entry (the entry carries the session's run and the session's visit id
\* for the stop); no other step (auto check-in, finishRun, Resume, Start New,
\* run selection, mode change, the resume check) removes an entry.
C21_VisitsNeverLost ==
  [][\A k \in Removed :
       \E l \in Locations :
         /\ onMarkUnvisited(l)
         /\ visits[k].locationId = l
         /\ visits[k].runId = Session.runId
         /\ k = makeVisitId(Session, l)
    ]_vars

\* the two calls issued last are a mark-visited and a mark-unvisited of one
\* stop, in either order, the first of them issued when every earlier
\* handler had completed; and both have completed
PairCompleted ==
  LET n == Len(args.calls)
  IN /\ n >= 2
     /\ args.calls[n].locationId = args.calls[n - 1].locationId
     /\ args.calls[n].fn # args.calls[n - 1].fn
     /\ args.calls[n - 1].idle
     /\ Idle

LastCall == args.calls[Len(args.calls)]

\* C22: mark/unmark of the same stop, last call wins without divergence.
\* Once a mark-visited and a mark-unvisited of the same stop, issued one
\* after the other in either order, have both completed, the stop is visited
\* exactly if the call issued last was the mark-visited, and the stop is in
\* the visited set exactly if the ledger holds the entry under the stop's
\* visit id of the session.
C22_LastCallWins ==
  PairCompleted =>
    /\ isVisited(Session, LastCall.locationId) <=> LastCall.fn = "onMarkVisited"
    /\ isVisited(Session, LastCall.locationId)
          <=> makeVisitId(Session, LastCall.locationId) \in DOMAIN visits

\* the suggestions for the run's stops and the session's visited set
CurrentSuggestions ==
  getNearestByCardinal(Sites(getLocationsForRun(selectedRunId)),
                       Session.visitedLocationIds)

\* C23: suggestions are recomputed after every visit change.  While
\* disruption mode is active and every handler (manual mark, mark-unvisited,
\* auto check-in, the opening of the panel) has completed, the stored
\* suggestions are getNearestByCardinal of the current visited set, and no
\* visited stop is a suggestion.
C23_SuggestionsCurrent ==
  (isDisruptionMode /\ runSession # 0 /\ Idle) =>
    /\ suggestionsByDirection = {CurrentSuggestions}
    /\ \A s \in suggestionsByDirection : \A card \in Cardinals :
         s[card].id \notin Session.visitedLocationIds

\* the stored record lacks runId, visitedLocationIds or startedAt
Malformed(data) ==
  \/ data.runId = NULL
  \/ ~data.visitedLocationIds.present
  \/ data.startedAt.kind = "undefined"

\* C24: malformed persisted snapshot.  When the start-up check meets a stored
\* record that lacks runId, visitedLocationIds or startedAt, it offers no
\* Resume choice and builds no session from the record.
C24_MalformedNotResumed ==
  [][(checkForActiveSession /\ loadActiveSession(activeSessions) # {}
        /\ Malformed(StoredRecord))
       => prompt' = NoSession
    ]_vars

\* x is a number from min to max
Within(x, min, max) == x.t = "number" /\ min <= x.v /\ x.v <= max

\* C25: settings are clamped.  What getAutoCheckInSettings returns and what
\* saveAutoCheckInSettings writes has proximityMeters in [20,200] and
\* dwellSeconds in [5,120], whatever was stored or supplied; with no
\* document stored, getAutoCheckInSettings returns the defaults (disabled,
\* 50 m, 30 s).
C25_SettingsClamped ==
  \A r \in result :
    /\ Within(r.proximityMeters, 20, 200)
    /\ Within(r.dwellSeconds, 5, 120)
    /\ (args.fn = "getAutoCheckInSettings" /\ args.stored = {}) =>
         /\ r.enabled = FALSE
         /\ r.proximityMeters = Num(50)
         /\ r.dwellSeconds = Num(30)

\* a save of settings whose proximity is not a number and whose dwell time is
\* above the range has returned
C25_Witness ==
  /\ args.fn = "saveAutoCheckInSettings"
  /\ args.settings.proximityMeters = Undefined
  /\ args.settings.dwellSeconds = Num(121)
  /\ result # {}

\* the step arms a dwell: a timer is set that was not outstanding
DwellArmed == DOMAIN timers' \ DOMAIN timers # {}

\* C26: sensor denied is surfaced once.  Since the app started the
\* permission-denied notice was shown at most once, however often the error
\* callback has fired and the watch was started again; on a device that
\* delivers no fix no dwell is armed and no auto visit is recorded; and a
\* dwell is armed only by update() for a delivered fix.
C26_DeniedSurfacedOnce ==
  /\ [](deniedNotices <= 1)
  /\ [](permission = "denied" =>
          /\ timers = <<>>
          /\ dwellingLocationId = NULL
          /\ \A k \in DOMAIN visits : visits[k].visitMethod # "auto")
  /\ [][DwellArmed => \E t \in Tasks : t.h = "update" /\ update(t)]_vars

\* the permission is denied, the notice was shown and the flag is set while
\* the watch runs: the error callback fires again without a second notice
C26_Witness ==
  /\ permission = "denied"
  /\ locationPermissionDeniedThisSession
  /\ deniedNotices = 1
  /\ gpsWatching
  /\ Idle
  /\ mode = "operation"

\* markVisited(session, L, v) has returned for a stop L that was visited
MarkedAgain ==
  /\ args.fn = "markVisited"
  /\ result # {}
  /\ isVisited(args.session, args.locationId)

C28_CompletionDuration ==
  args.fn = "finishRun" =>
    \A d \in result :
      LET startedAt == startedAtValue(args.startedAt, args.loadedAt)
      IN /\ d.t = "null" \/ (d.t = "number" /\ d.v >= 0)
         /\ startedAt.t = "number" =>
               /\ d.t = "number"
               /\ 2 * (MS_PER_MINUTE * d.v - (args.finishedAt - startedAt.v)) <= MS_PER_MINUTE
               /\ 2 * ((args.finishedAt - startedAt.v) - MS_PER_MINUTE * d.v) < MS_PER_MINUTE

\* C29: the live session's visit-id mapping is the session's own derived
\* ids.  In every state every visited stop of the live session has a stored
\* visit id, and every stored visit id of a stop L is makeVisitId(session, L),
\* made of this session's runId and startedAt.
C29_OwnDerivedIds ==
  runSession # 0 =>
    /\ DOMAIN Session.visitIdsByLocation = Session.visitedLocationIds
    /\ \A l \in DOMAIN Session.visitIdsByLocation :
          Session.visitIdsByLocation[l] = makeVisitId(Session, l)

\* C30: the controller's timer invariant.  At most one dwell timer is
\* outstanding; a timer is outstanding exactly when dwellTimerId is set, and
\* exactly when dwellingLocationId is set; and every outstanding timer is the
\* one dwellTimerId refers to, so that no other timer can fire the callback.
C30_TimerInvariant ==
  /\ Cardinality(DOMAIN timers) <= 1
  /\ (timers # <<>>) <=> (dwellTimerId # 0)
  /\ (dwellTimerId # 0) <=> (dwellingLocationId # NULL)
  /\ DOMAIN timers \subseteq {dwellTimerId}

\* a dwell on B runs while A is visited by a manual mark: one timer is
\* outstanding, the one the controller refers to
C30_Witness ==
  /\ dwellingLocationId = "B"
  /\ DOMAIN timers = {dwellTimerId}
  /\ "A" \in Session.visitedLocationIds
  /\ \A k \in DOMAIN visits : visits[k].visitMethod = "manual"
  /\ Idle

\* C31: the accuracy gate leaves the dwell alone.  With at least one stop of
\* the run unvisited, the step of update() for a fix whose accuracy radius
\* exceeds 100 m (max(proximityMeters, 100) for proximityMeters = 50) leaves
\* dwellingLocationId, dwellTimerId and the timers as they were, at every
\* position and speed of the fix: a pending dwell keeps its target and its
\* running timer, and none is armed.
C31_AccuracyGate ==
  [][\A t \in Tasks :
       (/\ t.h = "update" /\ update(t)
        /\ settingsEnabled
        /\ SeqToSet(t.locs) \ Session.visitedLocationIds # {}
        /\ t.fix.accuracy > 100)
       => KeptAfter
    ]_vars

\* the dwell on A has run for part of its time while update() handles a fast
\* fix out of range of every stop whose accuracy radius is just above 100 m
C31_Witness ==
  /\ dwellingLocationId = "A"
  /\ dwellTimerId \in DOMAIN timers
  /\ timers[dwellTimerId] < DwellTicks
  /\ \E t \in Tasks :
       t.h = "update" /\ t.fix.accuracy = 101 /\ t.fix.speed = 2 /\ t.fix.pos = 150

\* the step leaves a dwell pending that it has set or restarted
ArmsDwell == dwellingLocationId' # NULL /\ ~KeptAfter

\* the unvisited stops of the list of update() within proximityMeters of the fix
InRangeOf(t) ==
  {l \in SeqToSet(t.locs) \ Session.visitedLocationIds :
     haversineKm(t.fix.pos, l) <= 50}

\* the dwell that the step of update() arms is on an unvisited stop of the
\* run within proximityMeters of the fix, and no unvisited stop is closer
ClosestTarget ==
  \A t \in Tasks :
    (t.h = "update" /\ update(t) /\ ArmsDwell)
    => /\ dwellingLocationId' \in InRangeOf(t)
       /\ \A o \in SeqToSet(t.locs) \ Session.visitedLocationIds :
            haversineKm(t.fix.pos, o) >= haversineKm(t.fix.pos, dwellingLocationId')
       /\ ArmedAfter(dwellingLocationId')

\* C32 as stated: the dwell target is the closest qualifying stop, and for
\* every fix with no unvisited stop within proximityMeters the step of
\* update() cancels any pending dwell and arms none.
C32_ClosestOrCancelled ==
  [][/\ ClosestTarget
     /\ \A t \in Tasks :
          (t.h = "update" /\ update(t) /\ InRangeOf(t) = {}) => IdleAfter
    ]_vars

\* C32 amended: the dwell target is the closest qualifying stop; for a fix
\* that passes the accuracy gate (accuracy radius not above 100 m) with no
\* unvisited stop within proximityMeters the step of update() cancels any
\* pending dwell and arms none; a fix that fails the gate leaves a pending
\* dwell as it is, also when no unvisited stop is within proximityMeters.
C32_ClosestQualifying ==
  [][/\ ClosestTarget
     /\ \A t \in Tasks :
          /\ (t.h = "update" /\ update(t) /\ InRangeOf(t) = {} /\ t.fix.accuracy <= 100)
               => IdleAfter
          /\ (t.h = "update" /\ update(t) /\ InRangeOf(t) = {} /\ t.fix.accuracy > 100
                /\ SeqToSet(t.locs) \ Session.visitedLocationIds # {})
               => KeptAfter
    ]_vars

\* a dwell on B has just been armed while A, the first stop of the list, is
\* unvisited: the fix was at position 50, in range of both and nearer to B
C32_Witness ==
  /\ dwellingLocationId = "B"
  /\ dwellTimerId \in DOMAIN timers
  /\ timers[dwellTimerId] = DwellTicks
  /\ Session.visitedLocationIds = {}
  /\ Idle

\* the step of update() for an accepted fix whose closest qualifying stop is
\* another one than the stop dwelled on
Retargets(t) ==
  /\ t.h = "update" /\ update(t)
  /\ dwellingLocationId # NULL
  /\ Target(t.fix, t.locs, Session.visitedLocationIds) # NULL
  /\ Target(t.fix, t.locs, Session.visitedLocationIds) # dwellingLocationId

\* C33: re-targeting restarts the dwell.  When an accepted fix has a closest
\* qualifying stop B other than the stop A dwelled on, the step of update()
\* leaves exactly one timer outstanding, a timer of the full dwell time for
\* B (A's timer is cleared and cannot fire); and the expiry of a timer starts
\* at most one onAutoVisit handler and writes at most one "auto" entry, for
\* the stop dwelled on at the expiry.
C33_RetargetRestarts ==
  [][/\ \A t \in Tasks :
          Retargets(t) =>
            /\ ArmedAfter(Target(t.fix, t.locs, Session.visitedLocationIds))
            /\ Cardinality(DOMAIN timers') = 1
     /\ \A id \in DOMAIN timers :
          dwellTimerFired(id) =>
            /\ Cardinality(AutoVisitsStarted) <= 1
            /\ Cardinality(AutoEntriesWritten) <= 1
            /\ \A k \in AutoEntriesWritten : visits'[k].locationId = dwellingLocationId
            /\ timers' = <<>>
    ]_vars

\* the dwell on A has run for part of its time while update() handles a
\* precise slow fix at position 50, whose closest unvisited stop is B
C33_Witness ==
  /\ dwellingLocationId = "A"
  /\ dwellTimerId \in DOMAIN timers
  /\ timers[dwellTimerId] < DwellTicks
  /\ Session.visitedLocationIds = {}
  /\ \E t \in Tasks :
       /\ t.h = "update"
       /\ Target(t.fix, t.locs, Session.visitedLocationIds) = "B"

\* C34: cancelForLocation(L) clears the pending dwell exactly when its target
\* is L: the controller is then idle with no timer; when the dwell is on
\* another stop or none is pending, the target and the running timer are as
\* before the call.  cancelAll() leaves the controller idle with no timer
\* from every state.
C34_CancelForLocation ==
  \A after \in result :
    /\ args.fn = "cancelForLocation" =>
         IF args.c.dwellingLocationId = args.locationId
           THEN after = Controller(NULL, 0, <<>>)
           ELSE after = args.c
    /\ args.fn = "cancelAll" => after = Controller(NULL, 0, <<>>)

\* cancelForLocation("B") has returned while the dwell on A had part of its
\* time left: the dwell on A and its timer are as before
C34_Witness ==
  /\ args.fn = "cancelForLocation"
  /\ args.locationId = "B"
  /\ args.c.dwellingLocationId = "A"
  /\ args.c.timers = [k \in {1} |-> 1]
  /\ result = {args.c}

\* the step in which onRunSelect(r) assigns the selection: at once when no
\* session is live, else after its await of clearActiveSession
SelectionTakesEffect(r) ==
  \/ onRunSelect(r) /\ ~(runSession # 0 /\ selectedRunId # NULL)
  \/ \E t \in Tasks : t.run = r /\ onRunSelectCleared(t)

\* C35: session and selection agree.  In every state a session is live
\* exactly when a run is selected, and then its runId is the selected run;
\* the selection of the null run leaves no session and an empty slot; the
\* selection of a run leaves a new session of that run with no visited stop,
\* also when a session was live before.
C35_SessionAndSelection ==
  /\ [](/\ runSession # 0 <=> selectedRunId # NULL
        /\ runSession # 0 => Session.runId = selectedRunId)
  /\ [][/\ SelectionTakesEffect(NULL) =>
             /\ runSession' = 0
             /\ loadActiveSession(activeSessions') = {}
        /\ \A r \in Runs :
             SelectionTakesEffect(r) =>
               /\ runSession' # 0 /\ runSession' # runSession
               /\ heap'[runSession'].runId = r
               /\ heap'[runSession'].visitedLocationIds = {}
               /\ DOMAIN heap'[runSession'].visitIdsByLocation = {}
       ]_vars

\* run r1 was selected anew while its session, with a stop marked, was live:
\* the live session is a later one and has no visited stop
C35_Witness ==
  /\ selectedRunId = "r1"
  /\ runSession # 0
  /\ Session.startedAt > 1
  /\ Session.visitedLocationIds = {}
  /\ "visit-r1-A-1" \in DOMAIN visits
  /\ Idle

\* C36: every completion that finishRun wrote has
\* 0 <= visitedCount <= totalCount, whatever marks, unmarks and changes of
\* the run's stops preceded the finish.
C36_VisitedWithinTotal ==
  \A c \in BagToSet(runCompletions) :
    0 <= c.visitedCount /\ c.visitedCount <= c.totalCount

\* the start-up check meets a record of an existing run that carries no
\* visit-id mapping
MeetsRecordWithoutIds ==
  /\ checkForActiveSession
  /\ loadActiveSession(activeSessions) # {}
  /\ StoredRecord.runId \in runs
  /\ ~StoredRecord.visitIdsByLocation.present

\* C37: the re-derivation fallback.  From a record that carries no visit-id
\* mapping the start-up check builds a session that maps every visited stop
\* L of the record to makeVisitId of the record's runId, L and the session's
\* startedAt (the record's startedAt when it carries one); and the
\* mark-unvisited of a visited stop L that the live session maps to that
\* derived id leaves no ledger entry under it, the id under which the mark
\* of L in the attempt of that runId and startedAt wrote its entry.
C37_FallbackRederives ==
  [][/\ MeetsRecordWithoutIds =>
          /\ prompt' # NoSession
          /\ prompt'.runId = StoredRecord.runId
          /\ StoredRecord.startedAt.kind = "string" =>
                prompt'.startedAt = StoredRecord.startedAt.ms
          /\ DOMAIN prompt'.visitIdsByLocation =
                SeqToSet(ArrayOrEmpty(StoredRecord.visitedLocationIds))
          /\ \A l \in DOMAIN prompt'.visitIdsByLocation :
                prompt'.visitIdsByLocation[l] =
                  "visit-" \o StoredRecord.runId \o "-" \o l \o "-"
                    \o ToString(prompt'.startedAt)
     /\ \A l \in Locations :
          (/\ onMarkUnvisited(l)
           /\ isVisited(Session, l)
           /\ getVisitId(Session, l) = makeVisitId(Session, l)) =>
            makeVisitId(Session, l) \notin DOMAIN visits'
    ]_vars

\* the start-up check has built the session from the record of the attempt
\* started at 1 that carries no visit ids: stop A is mapped to the id of the
\* ledger entry that the mark of A wrote
C37_Witness ==
  /\ prompt # NoSession
  /\ loadActiveSession(activeSessions) # {}
  /\ ~StoredRecord.visitIdsByLocation.present
  /\ prompt.startedAt = 1
  /\ getVisitId(prompt, "A") = "visit-r1-A-1"
  /\ "visit-r1-A-1" \in DOMAIN visits

\* the session the operations have been applied to
OpsSession == CHOOSE session \in result : TRUE

\* the stop of the operation applied last
LastStop == args.ops[Len(args.ops)].locationId

\* C38: after any sequence of markVisited (with a visit id, with null or
\* with the empty string) and markUnvisited on a session made by
\* createRunSession, every stop with a stored visit id is a visited stop;
\* and an operation on stop L leaves whether any other stop is visited, the
\* visit id stored for any other stop, the runId and the startedAt as they
\* were.
C38_MappingWithinVisited ==
  /\ [](\A session \in result :
          DOMAIN session.visitIdsByLocation \subseteq session.visitedLocationIds)
  /\ [][\E before \in result, after \in result' :
          /\ after.runId = before.runId
          /\ after.startedAt = before.startedAt
          /\ \A l \in Locations \ {LastStop'} :
               /\ isVisited(after, l) = isVisited(before, l)
               /\ getVisitId(after, l) = getVisitId(before, l)
      ]_vars

\* stop A was marked with a visit id, stop B was marked with a visit id, and
\* A was unmarked: B is visited with its visit id, A is not
C38_Witness ==
  /\ args.fn = "session"
  /\ Len(args.ops) = 3
  /\ args.ops[1] = [fn |-> "markVisited", locationId |-> "A", visitId |-> "visit-r1-A-1"]
  /\ args.ops[2] = [fn |-> "markVisited", locationId |-> "B", visitId |-> "visit-r1-B-1"]
  /\ args.ops[3].fn = "markUnvisited" /\ LastStop = "A"
  /\ OpsSession.visitedLocationIds = {"B"}
  /\ getVisitId(OpsSession, "B") = "visit-r1-B-1"
  /\ getVisitId(OpsSession, "A") = NoVisitId

=============================================================================
